---- MODULE Spec2Model ----
(***************************************************************************)
(* A model of src/src/view/treeNodes/pullRequestNode.ts: the grouping of   *)
(* review comments into comment threads, the reconciliation of two         *)
(* generations of threads, and the PRNode handlers that deliver threads    *)
(* and thread deltas to the editor.                                        *)
(*                                                                         *)
(* Strings produced by id.toString() are modelled as the tuple of the      *)
(* decimal digits of the id.  A vscode.Comment keeps the fields the        *)
(* handlers read (commentId, body, isDraft); userName, gravatar, canEdit   *)
(* and canDelete are copied through by the code and never inspected.       *)
(***************************************************************************)
EXTENDS Integers, Sequences, FiniteSets

\* ------------------------------------------------------------------ bounds
\* Comment ids of the reconciliation and grouping specifications are 1..MaxId.
MaxId == 3
\* The remote host of the node specification creates at most MaxComments comments.
MaxComments == 2
\* Review ids are 1..MaxReviews.
MaxReviews == 1

Bodies == {"a", "b"}
Schemes == {"file", "pr"}

\* ----------------------------------------------------------------- helpers
RECURSIVE ToString(_)
\* Number.prototype.toString(): the decimal digits of a non-negative integer.
ToString(n) == IF n < 10 THEN <<n>> ELSE Append(ToString(n \div 10), n % 10)

RECURSIVE Flatten(_)
\* Array.prototype.concat / push(...xs) over a sequence of sequences.
Flatten(ss) == IF ss = <<>> THEN <<>> ELSE Head(ss) \o Flatten(Tail(ss))

RECURSIVE SortedSeq(_)
\* The elements of a finite set of integers in ascending order.
SortedSeq(S) ==
    IF S = {} THEN <<>>
    ELSE LET m == CHOOSE x \in S : \A y \in S : x <= y
         IN <<m>> \o SortedSeq(S \ {m})

\* -------------------------------------------------------------- diff model
\* DiffChangeType
Context == "Context"
Add == "Add"
Delete == "Delete"
Control == "Control"

\* A DiffLine.  A line number a side does not have is 0.
DiffLine(type, oldLineNumber, newLineNumber, positionInHunk, text) ==
    [type |-> type, oldLineNumber |-> oldLineNumber, newLineNumber |-> newLineNumber,
     positionInHunk |-> positionInHunk, text |-> text]

\* The hunk of the diff
\*   @@ -1,3 +1,4 @@ / context / -old line / +new line A / +new line B / context2
\* The header is a control line at position 0; the lines below it are 1..5.
ScenarioHunk ==
    [oldLineNumber |-> 1, oldLength |-> 3, newLineNumber |-> 1, newLength |-> 4,
     positionInHunk |-> 0,
     diffLines |-> << DiffLine(Control, 0, 0, 0, "@@ -1,3 +1,4 @@"),
                      DiffLine(Context, 1, 1, 1, "context"),
                      DiffLine(Delete, 2, 0, 2, "old line"),
                      DiffLine(Add, 0, 2, 3, "new line A"),
                      DiffLine(Add, 0, 3, 4, "new line B"),
                      DiffLine(Context, 3, 4, 5, "context2") >>]

\* The diff hunks of a changed file.
ScenarioHunks == << ScenarioHunk >>

\* The same hunk once its context window has grown by one line:
\*   @@ -1,4 +1,5 @@ / context / -old line / +new line A / +new line B / context2 / context3
GrownHunk ==
    [oldLineNumber |-> 1, oldLength |-> 4, newLineNumber |-> 1, newLength |-> 5,
     positionInHunk |-> 0,
     diffLines |-> << DiffLine(Control, 0, 0, 0, "@@ -1,4 +1,5 @@"),
                      DiffLine(Context, 1, 1, 1, "context"),
                      DiffLine(Delete, 2, 0, 2, "old line"),
                      DiffLine(Add, 0, 2, 3, "new line A"),
                      DiffLine(Add, 0, 3, 4, "new line B"),
                      DiffLine(Context, 3, 4, 5, "context2"),
                      DiffLine(Context, 4, 5, 6, "context3") >>]

GrownHunks == << GrownHunk >>

\* All diff lines of a hunk list, in order.
AllDiffLines(diffHunks) == Flatten([i \in 1..Len(diffHunks) |-> diffHunks[i].diffLines])

\* getZeroBased: a 1-based line to a 0-based one; n <= 0 gives 0.
getZeroBased(n) == IF n <= 0 THEN 0 ELSE n - 1

\* The number a diff line carries on one side (0: none).
SideLine(diffLine, isBase) == IF isBase THEN diffLine.oldLineNumber ELSE diffLine.newLineNumber

\* The start line of a hunk on one side.
HunkStart(diffHunk, isBase) == IF isBase THEN diffHunk.oldLineNumber ELSE diffHunk.newLineNumber

\* The nearest line at or before index j of a hunk that has a number on the side,
\* else the hunk's start line on that side.
NearestLine(diffHunk, j, isBase) ==
    LET cands == {k \in 1..j : diffHunk.diffLines[k].type # Control
                               /\ SideLine(diffHunk.diffLines[k], isBase) > 0}
    IN IF cands = {} THEN HunkStart(diffHunk, isBase)
       ELSE SideLine(diffHunk.diffLines[CHOOSE k \in cands : \A m \in cands : m <= k], isBase)

\* getAbsolutePosition: the line (as numbered in the diff) of a comment's position
\* on the base or head side; -1 when the position lies in no hunk.
getAbsolutePosition(comment, diffHunks, isBase) ==
    LET hits == UNION {{<<i, j>> : j \in {k \in 1..Len(diffHunks[i].diffLines) :
                                   /\ diffHunks[i].diffLines[k].type # Control
                                   /\ diffHunks[i].diffLines[k].positionInHunk = comment.position}}
                       : i \in 1..Len(diffHunks)}
    IN IF hits = {} THEN -1
       ELSE LET h == CHOOSE x \in hits : TRUE
            IN NearestLine(diffHunks[h[1]], h[2], isBase)

\* getPositionInDiff: for a partial file the document is the transcript of the
\* side's lines; the line of a position is the count of the side's lines up to
\* it; -1 when the position lies in no hunk.
getPositionInDiff(comment, diffHunks, isBase) ==
    LET lines == AllDiffLines(diffHunks)
        at == {k \in 1..Len(lines) : lines[k].type # Control
                                     /\ lines[k].positionInHunk = comment.position}
    IN IF at = {} THEN -1
       ELSE LET k == CHOOSE x \in at : TRUE
            IN Cardinality({m \in 1..k : lines[m].type # Control
                                         /\ SideLine(lines[m], isBase) > 0})

\* ----------------------------------------------------------------- grouping
\* The keys of groupBy(comments, c => String(c.position)) in for-in order: the
\* position keys are integer-like, which a for-in loop visits in ascending order.
SectionKeys(comments) == SortedSeq({comments[i].position : i \in 1..Len(comments)})

\* groupBy: the comments of one key, in arrival order.
Section(comments, key) == SelectSeq(comments, LAMBDA c : c.position = key)

\* pullRequestModel.prNumber of the node.
PrNumber == 1

\* The resource of one side of a changed file, as toPRUri builds it (the code
\* under test passes 'pr' resources; a plain file resource has scheme 'file').
Resource(scheme, fileName, isBase) ==
    [scheme |-> scheme, prNumber |-> PrNumber, fileName |-> fileName, isBase |-> isBase]

\* An InMemFileChangeNode: fileName, isPartial, diffHunks, the resource of each
\* side and the comment list.
InMemFileChangeNode(fileName, isPartial, diffHunks, scheme, comments) ==
    [kind |-> "InMem", fileName |-> fileName, isPartial |-> isPartial, diffHunks |-> diffHunks,
     filePath |-> Resource(scheme, fileName, FALSE),
     parentFilePath |-> Resource(scheme, fileName, TRUE),
     comments |-> comments]

\* A RemoteFileChangeNode: metadata only.
RemoteFileChangeNode(fileName) ==
    [kind |-> "Remote", fileName |-> fileName, isPartial |-> FALSE, diffHunks |-> <<>>,
     filePath |-> Resource("pr", fileName, FALSE),
     parentFilePath |-> Resource("pr", fileName, TRUE),
     comments |-> <<>>]

\* A file change node without comments.
FileChange(fileName, isPartial, diffHunks, scheme) ==
    InMemFileChangeNode(fileName, isPartial, diffHunks, scheme, <<>>)

\* The vscode.Comment built from a raw comment.
ToVsComment(comment) ==
    [commentId |-> ToString(comment.id), body |-> comment.body, isDraft |-> comment.isDraft]

\* The anchor line of a section's first comment.
CommentAbsolutePosition(fileChange, firstComment, isBase) ==
    IF fileChange.isPartial
    THEN getPositionInDiff(firstComment, fileChange.diffHunks, isBase)
    ELSE getAbsolutePosition(firstComment, fileChange.diffHunks, isBase)

\* Mutant: the thread is named after the last comment of its section.
SectionThread_LastComment(fileChange, comments, key, isBase) ==
    LET commentGroup == Section(comments, key)
    IN [threadId |-> ToString(commentGroup[Len(commentGroup)].id),
        resource |-> IF isBase THEN fileChange.parentFilePath ELSE fileChange.filePath,
        range |-> getZeroBased(CommentAbsolutePosition(fileChange, commentGroup[1], isBase)),
        comments |-> [i \in 1..Len(commentGroup) |-> ToVsComment(commentGroup[i])],
        collapsibleState |-> "Expanded"]

\* Mutant: the members are mapped from the whole comment list, not the section.
SectionThread_AllComments(fileChange, comments, key, isBase) ==
    LET commentGroup == Section(comments, key)
    IN [threadId |-> ToString(commentGroup[1].id),
        resource |-> IF isBase THEN fileChange.parentFilePath ELSE fileChange.filePath,
        range |-> getZeroBased(CommentAbsolutePosition(fileChange, commentGroup[1], isBase)),
        comments |-> [i \in 1..Len(comments) |-> ToVsComment(comments[i])],
        collapsibleState |-> "Expanded"]

\* The thread commentsToCommentThreads pushes for the section of one key.
SectionThread(fileChange, comments, key, isBase) ==
    LET commentGroup == Section(comments, key)
    IN [threadId |-> ToString(commentGroup[1].id),
        resource |-> IF isBase THEN fileChange.parentFilePath ELSE fileChange.filePath,
        range |-> getZeroBased(CommentAbsolutePosition(fileChange, commentGroup[1], isBase)),
        comments |-> [i \in 1..Len(commentGroup) |-> ToVsComment(commentGroup[i])],
        collapsibleState |-> "Expanded"]

\* Mutant: no section is skipped.
KeptKeys_NoSkip(fileChange, comments, isBase) == SectionKeys(comments)

\* The keys whose section is kept: the anchor of its first comment is not negative.
KeptKeys(fileChange, comments, isBase) ==
    SelectSeq(SectionKeys(comments), LAMBDA k :
        CommentAbsolutePosition(fileChange, Section(comments, k)[1], isBase) >= 0)

\* The threads pushed for the kept keys, in key order.
ThreadsOfKeys(fileChange, comments, kept, isBase) ==
    [i \in 1..Len(kept) |-> SectionThread(fileChange, comments, kept[i], isBase)]

\* commentsToCommentThreads
commentsToCommentThreads(fileChange, comments, isBase) ==
    ThreadsOfKeys(fileChange, comments, KeptKeys(fileChange, comments, isBase), isBase)

\* fromPRUri: the parameters of a 'pr' resource; valid is FALSE for any other
\* resource (the code gets undefined).
fromPRUri(uri) ==
    [valid |-> uri.scheme = "pr", prNumber |-> uri.prNumber, fileName |-> uri.fileName,
     isBase |-> uri.isBase]

\* The commenting ranges providePRDocumentComments computes, as <<start, end>> lines.
CommentingRanges(document, fileChange, isBase) ==
    IF fileChange.isPartial
    THEN << <<0, document.lineCount>> >>
    ELSE [i \in 1..Len(fileChange.diffHunks) |->
            LET diffHunk == fileChange.diffHunks[i]
                startingLine == getZeroBased(IF isBase THEN diffHunk.oldLineNumber
                                             ELSE diffHunk.newLineNumber)
                length == getZeroBased(IF isBase THEN diffHunk.oldLength ELSE diffHunk.newLength)
            IN <<startingLine, startingLine + length>>]

\* The thread providePRDocumentComments pushes for the section of one key.
DocumentSectionThread(document, fileChange, comments, key, isBase) ==
    [SectionThread(fileChange, comments, key, isBase) EXCEPT !.resource = document.uri]

\* What providePRDocumentComments returns when it returns undefined.
Undefined == [defined |-> FALSE, threads |-> <<>>, commentingRanges |-> <<>>, inDraftMode |-> FALSE]

\* The threads providePRDocumentComments pushes for the kept keys, in key order.
DocumentThreads(document, fileChange, kept, isBase) ==
    [i \in 1..Len(kept) |->
        DocumentSectionThread(document, fileChange, fileChange.comments, kept[i], isBase)]

\* providePRDocumentComments once the file change of the document is found.
DocumentComments(document, fileChange, isBase, inDraftMode) ==
    [defined |-> TRUE,
     threads |-> DocumentThreads(document, fileChange,
                                 KeptKeys(fileChange, fileChange.comments, isBase), isBase),
     commentingRanges |-> CommentingRanges(document, fileChange, isBase),
     inDraftMode |-> inDraftMode]

\* The file changes whose fileName is the document's.
FindFileChange(fileChanges, params) ==
    SelectSeq(fileChanges, LAMBDA change : change.fileName = params.fileName)

\* providePRDocumentComments after fromPRUri and fileChanges.find.
ProvideFor(document, prNumber, params, found, inDraftMode) ==
    IF ~params.valid \/ params.prNumber # prNumber THEN Undefined
    ELSE IF found = <<>> THEN Undefined
    ELSE IF found[1].kind = "Remote" THEN Undefined
    ELSE DocumentComments(document, found[1], params.isBase, inDraftMode)

\* providePRDocumentComments: undefined, or threads, commentingRanges, inDraftMode.
providePRDocumentComments(document, prNumber, fileChanges, inDraftMode) ==
    ProvideFor(document, prNumber, fromPRUri(document.uri),
               FindFileChange(fileChanges, fromPRUri(document.uri)), inDraftMode)

\* ----------------------------------------------------------- reconciliation
\* Mutant: old and new threads are matched as whole objects, not by threadId.
getRemovedCommentThreads_ByObject(oldCommentThreads, newCommentThreads) ==
    SelectSeq(oldCommentThreads, LAMBDA thread :
        Len(SelectSeq(newCommentThreads, LAMBDA newThread : newThread = thread)) = 0)

\* getRemovedCommentThreads
getRemovedCommentThreads(oldCommentThreads, newCommentThreads) ==
    SelectSeq(oldCommentThreads, LAMBDA thread :
        Len(SelectSeq(newCommentThreads,
                      LAMBDA newThread : newThread.threadId = thread.threadId)) = 0)

\* Mutant: every matched thread counts as edited.
commentsEditedInThread_Always(oldComments, newComments) == TRUE

\* Mutant: the body comparison is left out.
commentsEditedInThread_NoBody(oldComments, newComments) ==
    \E i \in 1..Len(oldComments) :
        Len(SelectSeq(newComments, LAMBDA newComment :
                newComment.commentId = oldComments[i].commentId)) # 1

\* commentsEditedInThread (the inner function of getAddedOrUpdatedCommentThreads)
commentsEditedInThread(oldComments, newComments) ==
    \E i \in 1..Len(oldComments) :
        LET matchingComment == SelectSeq(newComments, LAMBDA newComment :
                                   newComment.commentId = oldComments[i].commentId)
        IN \/ Len(matchingComment) # 1
           \/ matchingComment[1].body # oldComments[i].body

\* The old threads that match a new thread.
MatchingCommentThread(oldCommentThreads, thread) ==
    SelectSeq(oldCommentThreads, LAMBDA oldComment : oldComment.threadId = thread.threadId)

\* Mutant: an added thread of a 'file' resource that is collapsed is expanded.
AfterAdd_Toggles(oldCommentThreads, thread) ==
    IF Len(MatchingCommentThread(oldCommentThreads, thread)) = 0
       /\ thread.resource.scheme = "file"
    THEN [thread EXCEPT !.collapsibleState =
             IF @ = "Collapsed" THEN "Expanded" ELSE "Collapsed"]
    ELSE thread

\* Mutant: an added thread is collapsed whatever its resource.
AfterAdd_AlwaysCollapsed(oldCommentThreads, thread) ==
    IF Len(MatchingCommentThread(oldCommentThreads, thread)) = 0
    THEN [thread EXCEPT !.collapsibleState = "Collapsed"]
    ELSE thread

\* The new thread as getAddedOrUpdatedCommentThreads leaves it: an added thread of
\* a 'file' resource is collapsed in place.
AfterAdd(oldCommentThreads, thread) ==
    IF Len(MatchingCommentThread(oldCommentThreads, thread)) = 0
       /\ thread.resource.scheme = "file"
    THEN [thread EXCEPT !.collapsibleState = "Collapsed"]
    ELSE thread

\* Mutant: a thread with no matching old thread is pushed onto changed as well.
ChangedPushes_Unmatched(oldCommentThreads, thread) ==
    LET matching == MatchingCommentThread(oldCommentThreads, thread)
    IN IF Len(matching) = 0 THEN <<thread>>
       ELSE IF \/ Len(matching[1].comments) # Len(thread.comments)
               \/ commentsEditedInThread(matching[1].comments, thread.comments)
            THEN <<thread>> ELSE <<>>

\* The pushes onto changed for one new thread: one per matching old thread whose
\* member count differs, or when the first match's members were edited.
ChangedPushes(oldCommentThreads, thread) ==
    LET matching == MatchingCommentThread(oldCommentThreads, thread)
        hit == SelectSeq(matching, LAMBDA match :
                   \/ Len(match.comments) # Len(thread.comments)
                   \/ commentsEditedInThread(matching[1].comments, thread.comments))
    IN [i \in 1..Len(hit) |-> thread]

\* getAddedOrUpdatedCommentThreads: [added, changed], and the new list as mutated.
getAddedOrUpdatedCommentThreads(oldCommentThreads, newCommentThreads) ==
    LET after == [i \in 1..Len(newCommentThreads) |->
                     AfterAdd(oldCommentThreads, newCommentThreads[i])]
    IN [added |-> SelectSeq(after, LAMBDA thread :
                      Len(MatchingCommentThread(oldCommentThreads, thread)) = 0),
        changed |-> Flatten([i \in 1..Len(after) |-> ChangedPushes(oldCommentThreads, after[i])]),
        newThreads |-> after]

\* --------------------------------------------------------- PRNode operators
\* mapHeadLineToDiffHunkPosition: the position of the first diff line whose old
\* (base) or new (head) number is the line; -1 when no diff line has it.
mapHeadLineToDiffHunkPosition(diffHunks, line, isBase) ==
    LET lines == AllDiffLines(diffHunks)
        at == {k \in 1..Len(lines) : lines[k].type # Control /\ SideLine(lines[k], isBase) = line}
    IN IF at = {} THEN -1
       ELSE lines[CHOOSE k \in at : \A m \in at : k <= m].positionInHunk

\* The fields of a delta.
DeltaFields == {"added", "removed", "changed"}

\* The delta with no thread.
EmptyDelta == [f \in DeltaFields |-> <<>>]

\* The concatenation, field by field, of a sequence of deltas.
Gather(deltas) == [f \in DeltaFields |-> Flatten([i \in 1..Len(deltas) |-> deltas[i][f]])]

\* The removed, added and changed threads of two thread lists.
ThreadsDelta(oldCommentThreads, newCommentThreads, addedOrUpdated) ==
    [added |-> addedOrUpdated.added,
     removed |-> getRemovedCommentThreads(oldCommentThreads, newCommentThreads),
     changed |-> addedOrUpdated.changed]

\* The reconciliation of two thread lists.
ReconcileThreads(oldCommentThreads, newCommentThreads) ==
    ThreadsDelta(oldCommentThreads, newCommentThreads,
                 getAddedOrUpdatedCommentThreads(oldCommentThreads, newCommentThreads))

\* The delta of one side of one file, as the loop body of updateComments builds it.
SideDelta(oldFileChange, newFileChange, isBase) ==
    ReconcileThreads(commentsToCommentThreads(oldFileChange, oldFileChange.comments, isBase),
                     commentsToCommentThreads(newFileChange, newFileChange.comments, isBase))

\* The new in-memory file changes with the fileName of an old file change.
NewFileChanges(oldFileChange, fileChanges) ==
    SelectSeq(fileChanges, LAMBDA fileChange :
        fileChange.kind = "InMem" /\ fileChange.fileName = oldFileChange.fileName)

\* Mutant: the head side is reconciled as the base side a second time.
BothSidesDelta_BaseTwice(oldFileChange, newFileChange) ==
    Gather(<< SideDelta(oldFileChange, newFileChange, TRUE),
              SideDelta(oldFileChange, newFileChange, TRUE) >>)

\* The delta of an old file change against its new one: base side, then head side.
BothSidesDelta(oldFileChange, newFileChange) ==
    Gather(<< SideDelta(oldFileChange, newFileChange, TRUE),
              SideDelta(oldFileChange, newFileChange, FALSE) >>)

\* The delta of one old file change: nothing for a remote file change or when no
\* new in-memory file change has its fileName.
FileDeltaOf(oldFileChange, newFileChanges) ==
    IF oldFileChange.kind = "Remote" \/ newFileChanges = <<>>
    THEN EmptyDelta
    ELSE BothSidesDelta(oldFileChange, newFileChanges[1])

FileDelta(oldFileChange, fileChanges) ==
    FileDeltaOf(oldFileChange, NewFileChanges(oldFileChange, fileChanges))

\* The delta updateComments accumulates over this._fileChanges.
UpdateCommentsDelta(oldFileChanges, fileChanges) ==
    Gather([i \in 1..Len(oldFileChanges) |-> FileDelta(oldFileChanges[i], fileChanges)])

\* The string ids of the deleted comments.
DeletedIds(deletedComments) == {ToString(deletedComments[i].id) : i \in 1..Len(deletedComments)}

\* The threads with the deleted comments filtered out of their members.
WithoutDeleted(oldCommentThreads, deletedIds) ==
    [i \in 1..Len(oldCommentThreads) |->
        [oldCommentThreads[i] EXCEPT !.comments =
            SelectSeq(oldCommentThreads[i].comments,
                      LAMBDA comment : comment.commentId \notin deletedIds)]]

\* The threads calculateChangedAndRemovedThreads visits: those of one side of the
\* file change, each with the deleted comments filtered out of its members.
FilteredThreads(fileChange, deletedComments, isBase) ==
    WithoutDeleted(commentsToCommentThreads(fileChange, fileChange.comments, isBase),
                   DeletedIds(deletedComments))

\* Mutant: every visited thread is pushed onto changed, none onto removed.
SplitThreads_AllChanged(threads) ==
    [added |-> <<>>, removed |-> <<>>, changed |-> threads]

\* A thread left without members is pushed onto removed, any other onto changed.
SplitThreads(threads) ==
    [added |-> <<>>,
     removed |-> SelectSeq(threads, LAMBDA thread : Len(thread.comments) = 0),
     changed |-> SelectSeq(threads, LAMBDA thread : Len(thread.comments) # 0)]

\* calculateChangedAndRemovedThreads: the pushes onto changed and removed.
calculateChangedAndRemovedThreads(fileChange, deletedComments, isBase) ==
    SplitThreads(FilteredThreads(fileChange, deletedComments, isBase))

RECURSIVE FirstOccurrences(_)
\* The keys of groupBy(deletedReviewComments, c => c.path) in for-in order: string
\* keys are visited in insertion order.
FirstOccurrences(paths) ==
    IF paths = <<>> THEN <<>>
    ELSE <<Head(paths)>> \o FirstOccurrences(SelectSeq(Tail(paths), LAMBDA x : x # Head(paths)))

\* The deleted comments of one path.
CommentsForFile(deletedReviewComments, filePath) ==
    SelectSeq(deletedReviewComments, LAMBDA c : c.path = filePath)

\* The file changes of one fileName.
MatchingFileChange(fileChanges, filePath) ==
    SelectSeq(fileChanges, LAMBDA fileChange : fileChange.fileName = filePath)

\* The changed and removed threads of a matching file change: base, then head.
DraftSidesDelta(fileChange, commentsForFile) ==
    Gather(<< calculateChangedAndRemovedThreads(fileChange, commentsForFile, TRUE),
              calculateChangedAndRemovedThreads(fileChange, commentsForFile, FALSE) >>)

DraftFileDeltaOf(matching, commentsForFile) ==
    IF matching = <<>> THEN EmptyDelta
    ELSE IF matching[1].kind # "InMem" THEN EmptyDelta
    ELSE DraftSidesDelta(matching[1], commentsForFile)

\* The changed and removed threads deleteDraft collects for the file of one path.
DraftFileDelta(fileChanges, deletedReviewComments, filePath) ==
    DraftFileDeltaOf(MatchingFileChange(fileChanges, filePath),
                     CommentsForFile(deletedReviewComments, filePath))

\* Mutant: the loop runs over every file, not over the paths of the deleted comments.
DeletedPaths_EveryFile(deletedReviewComments) == <<"a", "b">>

\* The paths of the deleted comments, in for-in order.
DeletedPaths(deletedReviewComments) ==
    FirstOccurrences([i \in 1..Len(deletedReviewComments) |-> deletedReviewComments[i].path])

DraftDeltaOfPaths(fileChanges, deletedReviewComments, paths) ==
    Gather([i \in 1..Len(paths) |-> DraftFileDelta(fileChanges, deletedReviewComments, paths[i])])

\* The changed and removed threads of the event deleteDraft fires.
DeleteDraftDelta(fileChanges, deletedReviewComments) ==
    DraftDeltaOfPaths(fileChanges, deletedReviewComments, DeletedPaths(deletedReviewComments))

\* this._fileChanges after deleteDraft: the first file change of each deleted
\* comment's path, when in memory, loses the comments of the deleted review.
DeleteDraftFileChanges(fileChanges, deletedReviewComments, deletedReviewId) ==
    LET paths == {deletedReviewComments[i].path : i \in 1..Len(deletedReviewComments)}
        first(name) == CHOOSE i \in 1..Len(fileChanges) :
                          /\ fileChanges[i].fileName = name
                          /\ \A j \in 1..(i - 1) : fileChanges[j].fileName # name
    IN [i \in 1..Len(fileChanges) |->
           IF /\ fileChanges[i].fileName \in paths
              /\ fileChanges[i].kind = "InMem"
              /\ i = first(fileChanges[i].fileName)
           THEN [fileChanges[i] EXCEPT !.comments =
                    SelectSeq(fileChanges[i].comments,
                              LAMBDA comment : comment.pullRequestReviewId # deletedReviewId)]
           ELSE fileChanges[i]]

\* this._fileChanges after updateCommentPendingState: no comment is a draft.
SubmittedFileChanges(fileChanges) ==
    [i \in 1..Len(fileChanges) |->
        IF fileChanges[i].kind = "InMem"
        THEN [fileChanges[i] EXCEPT !.comments =
                 [k \in 1..Len(fileChanges[i].comments) |->
                     [fileChanges[i].comments[k] EXCEPT !.isDraft = FALSE]]]
        ELSE fileChanges[i]]

\* The threads updateCommentPendingState reports as changed: of every in-memory
\* file change, the head side and then the base side.
PendingStateThreads(fileChanges) ==
    Flatten([i \in 1..Len(fileChanges) |->
        IF fileChanges[i].kind = "InMem"
        THEN commentsToCommentThreads(fileChanges[i], fileChanges[i].comments, FALSE)
             \o commentsToCommentThreads(fileChanges[i], fileChanges[i].comments, TRUE)
        ELSE <<>>])

\* ------------------------------------------------------------------- inputs
\* A raw review comment.
\* The position of a comment that is not anchored to a line (null).
NullPosition == -2

RawComment(id, path, position, body, isDraft, reviewId) ==
    [id |-> id, path |-> path, position |-> position, body |-> body,
     isDraft |-> isDraft, pullRequestReviewId |-> reviewId]

VARIABLES
    \* the reconciliation specification: the two generations and the results
    rcOld, rcNew, rcRemoved, rcAdded, rcChanged, rcNewAfter, rcDone,
    \* the grouping specification: the file change with its comment list, the
    \* side, the threads of the two grouping functions, and which were called
    grFile, grIsBase, grThreads, grProvided, grDone,
    \* the line count of the document and the commenting ranges provided for it
    grLineCount, grRanges,
    \* the document content provided: the resource asked for and the text
    grContent,
    \* the remote host: its review comments in arrival order, the id of the
    \* pending review (0: none), the next comment id and the next review id
    remote, pendingReview, nextId, nextReview,
    \* the PRNode: this._fileChanges, whether the document comment provider is
    \* registered
    fileChanges, registered,
    \* the ids of the comments the editor may show: those that have been in a
    \* comment list of this._fileChanges
    shown,
    \* the getChildren calls in progress: where each call is, the file changes it
    \* built and the delta it computed; and the calls that computed a delta to
    \* fire, in the order they computed it
    calls, computed,
    \* the createNewCommentThread or replyToCommentThread call awaiting the remote
    \* host, and the ids of the comments such calls have created
    creating,
    \* the onDidSubmitReview listeners of the node: how many are subscribed, and
    \* how many have still to run for the notification being raised
    listeners,
    \* whether the pull request of the node is _prManager.activePullRequest
    active,
    \* what the node gave the editor in the last step: the event fired on
    \* _onDidChangeCommentThreads and the threads a provider call returned
    lastEvent, delivered

rcVars == <<rcOld, rcNew, rcRemoved, rcAdded, rcChanged, rcNewAfter, rcDone>>
grVars == <<grFile, grIsBase, grThreads, grProvided, grDone, grLineCount, grRanges, grContent>>

remoteVars == <<remote, pendingReview, nextId, nextReview>>
nodeVars == <<fileChanges, registered, shown>>
refreshVars == <<calls, computed, creating, listeners, active>>
outVars == <<lastEvent, delivered>>

vars == <<rcVars, grVars, remoteVars, nodeVars, outVars, refreshVars>>

\* No event was fired in the step.  An event carries, beside its payload, the
\* file changes before the step and the comments the step deleted.
NoEvent ==
    [kind |-> "none", added |-> <<>>, changed |-> <<>>, removed |-> <<>>, inDraftMode |-> FALSE,
     oldFileChanges |-> <<>>, deletedComments |-> <<>>]

\* What a call of the node gave back: the operation, whether it returned (FALSE:
\* it threw or returned undefined), the threads returned, the request it sent to
\* the remote host, and the arguments of the call.
Delivery(op, ok, threads, request, input) ==
    [op |-> op, ok |-> ok, threads |-> threads, request |-> request, input |-> input]

\* No call returned in the step.
NoDelivery == Delivery("none", FALSE, <<>>, "none", <<>>)

\* No createNewCommentThread or replyToCommentThread call awaits the remote host.
\* A call that does holds the file change object it found on entry: current
\* tells whether that object is still in this._fileChanges.
NoCreate(created) ==
    [pc |-> "idle", op |-> "none", fileName |-> "", current |-> TRUE, rawComment |-> <<>>,
     threads |-> <<>>, input |-> <<>>, created |-> created]

\* this._fileChanges is assigned new file change objects: the object a call in
\* progress holds is no longer among them.
Replaced(create) ==
    IF create.pc = "awaiting" THEN [create EXCEPT !.current = FALSE] ELSE create

\* onDidSubmitReview is given one more listener.
Subscribed(counts) == [counts EXCEPT !.subscribed = @ + 1]

\* The getChildren calls that may be in progress at once.
MaxCalls == 2
Calls == 1..MaxCalls

\* A call that is not in progress.
IdleCall == [pc |-> "idle", fileChanges |-> <<>>, delta |-> EmptyDelta]

NodeIdle ==
    /\ remote = <<>> /\ pendingReview = 0 /\ nextId = 1 /\ nextReview = 1
    /\ fileChanges = <<>> /\ registered = FALSE /\ shown = {}
    /\ calls = [c \in Calls |-> IdleCall] /\ computed = <<>>
    /\ creating = NoCreate({})
    /\ listeners = [subscribed |-> 0, toRun |-> 0]
    /\ active = FALSE
    /\ lastEvent = NoEvent /\ delivered = NoDelivery

\* The variables of a specification that another specification leaves alone.
RcIdle ==
    /\ rcOld = <<>> /\ rcNew = <<>> /\ rcRemoved = <<>> /\ rcAdded = <<>>
    /\ rcChanged = <<>> /\ rcNewAfter = <<>> /\ rcDone = FALSE

\* No document content was asked for.
NoContent == [uri |-> Resource("file", "", FALSE), text |-> <<>>]

GrIdle ==
    /\ grFile = FileChange("f", FALSE, <<>>, "pr") /\ grIsBase = FALSE
    /\ grThreads = <<>> /\ grProvided = <<>> /\ grDone = {}
    /\ grLineCount = 4 /\ grRanges = <<>> /\ grContent = NoContent

\* ------------------------------------------- the reconciliation specification
\* Two thread lists, as grouping produces them for one side of one file.  Each
\* comment id is in neither list, in the old one, in the new one or in both; it
\* keeps its position (one of the two context lines and the first added line)
\* from one generation to the next; old bodies are "a" and new bodies are "a" or
\* "b"; the resource is a file or a pr resource.
RcPositions == {1, 3, 5}

RcFates ==
    {[inOld |-> FALSE, inNew |-> FALSE, position |-> 1, body |-> "a"]}
    \cup {[inOld |-> TRUE, inNew |-> FALSE, position |-> p, body |-> "a"] : p \in RcPositions}
    \cup {[inOld |-> o, inNew |-> TRUE, position |-> q[1], body |-> q[2]] :
             o \in BOOLEAN, q \in RcPositions \X Bodies}

\* The old (isNew FALSE) or new comment list of an assignment of fates to ids.
RcComments(fate, isNew) ==
    LET ids == SortedSeq({id \in 1..MaxId : IF isNew THEN fate[id].inNew ELSE fate[id].inOld})
    IN [i \in 1..Len(ids) |->
           RawComment(ids[i], "f", fate[ids[i]].position,
                      IF isNew THEN fate[ids[i]].body ELSE "a", FALSE, 0)]

RcInit ==
    /\ \E scheme \in Schemes :
       \E fate \in [1..MaxId -> RcFates] :
          /\ rcOld = commentsToCommentThreads(FileChange("f", FALSE, ScenarioHunks, scheme),
                                              RcComments(fate, FALSE), FALSE)
          /\ rcNew = commentsToCommentThreads(FileChange("f", FALSE, ScenarioHunks, scheme),
                                              RcComments(fate, TRUE), FALSE)
    /\ rcRemoved = <<>>
    /\ rcAdded = <<>>
    /\ rcChanged = <<>>
    /\ rcNewAfter = <<>>
    /\ rcDone = FALSE
    /\ GrIdle
    /\ NodeIdle

\* One reconciliation of the two lists, as the loop body of updateComments does it.
Reconcile ==
    /\ ~rcDone
    /\ rcRemoved' = getRemovedCommentThreads(rcOld, rcNew)
    /\ LET r == getAddedOrUpdatedCommentThreads(rcOld, rcNew)
       IN /\ rcAdded' = r.added
          /\ rcChanged' = r.changed
          /\ rcNewAfter' = r.newThreads
    /\ rcDone' = TRUE
    /\ UNCHANGED <<rcOld, rcNew>>
    /\ UNCHANGED <<grVars, remoteVars, nodeVars, outVars, refreshVars>>

\* The reconciliation is computed again on the same two lists; the new list is
\* the one the first computation collapsed in place.
ReconcileAgain ==
    /\ rcDone
    /\ rcNew' = rcNewAfter
    /\ rcRemoved' = getRemovedCommentThreads(rcOld, rcNewAfter)
    /\ LET r == getAddedOrUpdatedCommentThreads(rcOld, rcNewAfter)
       IN /\ rcAdded' = r.added
          /\ rcChanged' = r.changed
          /\ rcNewAfter' = r.newThreads
    /\ UNCHANGED <<rcOld, rcDone>>
    /\ UNCHANGED <<grVars, remoteVars, nodeVars, outVars, refreshVars>>

RcNext == Reconcile \/ ReconcileAgain

SpecReconcile == RcInit /\ [][RcNext]_vars

\* ---------------------------------------------------- reconciliation claims
ThreadIdsOf(threads) == {threads[i].threadId : i \in 1..Len(threads)}
MemberIds(thread) == {thread.comments[i].commentId : i \in 1..Len(thread.comments)}
OldThreadOf(id) == rcOld[CHOOSE i \in 1..Len(rcOld) : rcOld[i].threadId = id]
NewThreadOf(id) == rcNew[CHOOSE i \in 1..Len(rcNew) : rcNew[i].threadId = id]

\* The member count differs, or an old member is missing from the new members, or
\* an old member's body differs from the new member with the same id.
MembersDiffer(o, n) ==
    \/ Len(o.comments) # Len(n.comments)
    \/ \E i \in 1..Len(o.comments) :
          \/ o.comments[i].commentId \notin MemberIds(n)
          \/ \E j \in 1..Len(n.comments) :
                /\ n.comments[j].commentId = o.comments[i].commentId
                /\ n.comments[j].body # o.comments[i].body

\* The only difference of the two threads is the body of a member.
OnlyBodyEdit(o, n) ==
    /\ Len(o.comments) = Len(n.comments)
    /\ MemberIds(o) = MemberIds(n)
    /\ \E i \in 1..Len(o.comments), j \in 1..Len(n.comments) :
          /\ n.comments[j].commentId = o.comments[i].commentId
          /\ n.comments[j].body # o.comments[i].body

\* C1: for every identity in both lists the new thread is in changed exactly when
\* the member count differs, an old member is missing from the new members or an
\* old member's body differs; a thread with only a body edit is in changed and in
\* neither added nor removed.
C1_ChangedIffMembersDiffer ==
    rcDone =>
        \A id \in ThreadIdsOf(rcOld) \cap ThreadIdsOf(rcNew) :
            /\ (id \in ThreadIdsOf(rcChanged)) <=> MembersDiffer(OldThreadOf(id), NewThreadOf(id))
            /\ \A k \in 1..Len(rcChanged) :
                  rcChanged[k].threadId = id => rcChanged[k] = NewThreadOf(id)
            /\ OnlyBodyEdit(OldThreadOf(id), NewThreadOf(id)) =>
                  /\ id \in ThreadIdsOf(rcChanged)
                  /\ id \notin ThreadIdsOf(rcAdded)
                  /\ id \notin ThreadIdsOf(rcRemoved)

C1_Witness ==
    /\ rcDone
    /\ \E id \in ThreadIdsOf(rcOld) \cap ThreadIdsOf(rcNew) :
          /\ OnlyBodyEdit(OldThreadOf(id), NewThreadOf(id))
          /\ id \in ThreadIdsOf(rcChanged)
    /\ \E id \in ThreadIdsOf(rcOld) \cap ThreadIdsOf(rcNew) :
          /\ ~MembersDiffer(OldThreadOf(id), NewThreadOf(id))
          /\ id \notin ThreadIdsOf(rcChanged)

\* The indices of the old threads that no new thread matches.
UnmatchedOld == {i \in 1..Len(rcOld) : rcOld[i].threadId \notin ThreadIdsOf(rcNew)}

\* C2: getRemovedCommentThreads returns exactly the old threads whose threadId is
\* the threadId of no new thread, in old-list order, and nothing else.
C2_RemovedExactlyUnmatchedOld ==
    rcDone =>
        LET idx == SortedSeq(UnmatchedOld)
        IN rcRemoved = [k \in 1..Len(idx) |-> rcOld[idx[k]]]

C2_Witness ==
    /\ rcDone
    /\ Len(rcRemoved) >= 2
    /\ Len(rcRemoved) < Len(rcOld)

\* The indices of the new threads that no old thread matches.
UnmatchedNew == {i \in 1..Len(rcNew) : rcNew[i].threadId \notin ThreadIdsOf(rcOld)}

\* C3: added is exactly the new threads whose threadId matches no old thread; each
\* is collapsed when its resource scheme is 'file' and expanded otherwise, and
\* the threads that are not added stay expanded.
C3_AddedExactlyUnmatchedNew ==
    rcDone =>
        LET idx == SortedSeq(UnmatchedNew)
        IN /\ Len(rcAdded) = Len(idx)
           /\ \A k \in 1..Len(idx) :
                 /\ rcAdded[k] = [rcNew[idx[k]] EXCEPT !.collapsibleState =
                                     IF rcNew[idx[k]].resource.scheme = "file"
                                     THEN "Collapsed" ELSE "Expanded"]
                 /\ rcNewAfter[idx[k]] = rcAdded[k]
           /\ \A i \in (1..Len(rcNew)) \ UnmatchedNew :
                 /\ rcNewAfter[i] = rcNew[i]
                 /\ rcNewAfter[i].collapsibleState = "Expanded"
           /\ \A k \in 1..Len(rcChanged) : rcChanged[k].collapsibleState = "Expanded"

C3_Witness ==
    /\ rcDone
    /\ \E k \in 1..Len(rcAdded) : rcAdded[k].collapsibleState = "Collapsed"
    /\ \E i \in 1..Len(rcNewAfter) :
          /\ rcNewAfter[i].resource.scheme = "file"
          /\ rcNewAfter[i].collapsibleState = "Expanded"

\* C4: every thread identity of the two lists is in exactly one of added, changed,
\* unchanged (in both lists and not reported) and removed.
C4_IdentityInExactlyOneClass ==
    rcDone =>
        \A id \in ThreadIdsOf(rcOld) \cup ThreadIdsOf(rcNew) :
            LET inBoth == id \in ThreadIdsOf(rcOld) \cap ThreadIdsOf(rcNew)
                isAdded == id \in ThreadIdsOf(rcAdded)
                isRemoved == id \in ThreadIdsOf(rcRemoved)
                isChanged == id \in ThreadIdsOf(rcChanged)
                isUnchanged == inBoth /\ ~isAdded /\ ~isRemoved /\ ~isChanged
            IN /\ Cardinality({c \in {"added", "removed", "changed", "unchanged"} :
                      \/ c = "added" /\ isAdded
                      \/ c = "removed" /\ isRemoved
                      \/ c = "changed" /\ isChanged
                      \/ c = "unchanged" /\ isUnchanged}) = 1
               /\ isAdded => id \in ThreadIdsOf(rcNew) \ ThreadIdsOf(rcOld)
               /\ isRemoved => id \in ThreadIdsOf(rcOld) \ ThreadIdsOf(rcNew)
               /\ isChanged => inBoth

C4_Witness ==
    /\ rcDone
    /\ rcAdded # <<>>
    /\ rcRemoved # <<>>
    /\ rcChanged # <<>>

\* C23: computing the reconciliation a second time on the same old and new
\* lists gives the added, changed and removed lists of the first time, also
\* when the first computation collapsed the added threads.
C23_ReconcileTwiceSame ==
    [][rcDone => /\ rcAdded' = rcAdded
                 /\ rcChanged' = rcChanged
                 /\ rcRemoved' = rcRemoved]_vars

\* C23 witness: the reconciliation was computed again on a new list in which the
\* first computation had collapsed an added thread, and a thread was removed and
\* another changed.
C23_Witness ==
    /\ rcDone
    /\ rcNew = rcNewAfter
    /\ \E i \in 1..Len(rcAdded) : rcAdded[i].collapsibleState = "Collapsed"
    /\ rcRemoved # <<>>
    /\ rcChanged # <<>>

\* ------------------------------------------------- the grouping specification
\* The positions of the deleted line and of the first added line of the hunk, and
\* a position beyond the hunk.
GrPositions == {2, 3, 6}

RECURSIVE ArrivalLists(_)
\* The comment lists of file "f" of at most n comments with distinct ids, in any
\* arrival order, with positions from GrPositions.
ArrivalLists(n) ==
    IF n = 0 THEN {<<>>}
    ELSE LET shorter == ArrivalLists(n - 1)
         IN shorter \cup
            UNION {{Append(l, RawComment(id, "f", p, "a", FALSE, 0)) :
                        id \in (1..MaxId) \ {l[i].id : i \in 1..Len(l)}, p \in GrPositions}
                   : l \in {x \in shorter : Len(x) = n - 1}}

\* The document of one side of file "f".
GrDocument == [uri |-> Resource("pr", "f", grIsBase), lineCount |-> grLineCount]

GrInit ==
    /\ \E comments \in ArrivalLists(MaxId), isPartial \in BOOLEAN :
          grFile = InMemFileChangeNode("f", isPartial, ScenarioHunks, "pr", comments)
    /\ grIsBase \in BOOLEAN
    /\ grThreads = <<>>
    /\ grProvided = <<>>
    /\ grDone = {}
    /\ grLineCount = 4
    /\ grRanges = <<>>
    /\ grContent = NoContent
    /\ RcIdle
    /\ NodeIdle

\* Mutant: grouping takes the comments of the dropped partitions off the list.
GroupComments_DropsUnresolved ==
    /\ "group" \notin grDone
    /\ grThreads' = commentsToCommentThreads(grFile, grFile.comments, grIsBase)
    /\ grFile' = [grFile EXCEPT !.comments = SelectSeq(@, LAMBDA comment :
                      CommentAbsolutePosition(grFile, comment, grIsBase) >= 0)]
    /\ grDone' = grDone \cup {"group"}
    /\ UNCHANGED <<grLineCount, grRanges, grContent>>
    /\ UNCHANGED <<grIsBase, grProvided, rcVars, remoteVars, nodeVars, outVars, refreshVars>>

\* A call of commentsToCommentThreads on the file change's comment list.
GroupComments ==
    /\ "group" \notin grDone
    /\ grThreads' = commentsToCommentThreads(grFile, grFile.comments, grIsBase)
    /\ grDone' = grDone \cup {"group"}
    /\ UNCHANGED <<grLineCount, grRanges, grContent>>
    /\ UNCHANGED <<grFile, grIsBase, grProvided, rcVars, remoteVars, nodeVars, outVars, refreshVars>>

\* A call of providePRDocumentComments for the document of the side.
ProvideComments ==
    /\ "provide" \notin grDone
    /\ grProvided' = providePRDocumentComments(GrDocument, PrNumber, <<grFile>>, FALSE).threads
    /\ grDone' = grDone \cup {"provide"}
    /\ UNCHANGED <<grLineCount, grRanges, grContent>>
    /\ UNCHANGED <<grFile, grIsBase, grThreads, rcVars, remoteVars, nodeVars, outVars, refreshVars>>

\* A later refresh finds the hunk with a wider context window; the file change keeps
\* its comment list and is grouped again.
ContextGrows ==
    /\ "group" \in grDone
    /\ grFile.diffHunks = ScenarioHunks
    /\ grFile' = [grFile EXCEPT !.diffHunks = GrownHunks]
    /\ grThreads' = <<>>
    /\ grProvided' = <<>>
    /\ grDone' = {}
    /\ UNCHANGED <<grLineCount, grRanges, grContent>>
    /\ UNCHANGED <<grIsBase, rcVars, remoteVars, nodeVars, outVars, refreshVars>>

\* A second call of commentsToCommentThreads, on the same list and hunks.
GroupAgain ==
    /\ "group" \in grDone
    /\ "again" \notin grDone
    /\ grThreads' = commentsToCommentThreads(grFile, grFile.comments, grIsBase)
    /\ grDone' = grDone \cup {"again"}
    /\ UNCHANGED <<grLineCount, grRanges, grContent>>
    /\ UNCHANGED <<grFile, grIsBase, grProvided, rcVars, remoteVars, nodeVars, outVars, refreshVars>>

GrNext == GroupComments \/ ProvideComments \/ ContextGrows \/ GroupAgain

SpecGroup == GrInit /\ [][GrNext]_vars

\* ------------------------------------------------ the commenting-ranges spec
\* The most lines a hunk has on one side, and the most lines of a document.
MaxLength == 2
MaxLines == 2

\* The diff lines of a hunk that deletes oldLength lines and adds newLength
\* lines, below its header; the header is at diff position first.
ReplacingLines(oldLineNumber, oldLength, newLineNumber, newLength, first) ==
    << DiffLine(Control, 0, 0, first, "@@") >>
    \o [i \in 1..oldLength |-> DiffLine(Delete, oldLineNumber + i - 1, 0, first + i, "old")]
    \o [i \in 1..newLength |->
           DiffLine(Add, 0, newLineNumber + i - 1, first + oldLength + i, "new")]

\* The hunk @@ -oldLineNumber,oldLength +newLineNumber,newLength @@; a side
\* without lines is numbered by the line before it.
ReplacingHunk(oldBefore, oldLength, newBefore, newLength, first) ==
    LET oldLineNumber == IF oldLength = 0 THEN oldBefore ELSE oldBefore + 1
        newLineNumber == IF newLength = 0 THEN newBefore ELSE newBefore + 1
    IN [oldLineNumber |-> oldLineNumber, oldLength |-> oldLength,
        newLineNumber |-> newLineNumber, newLength |-> newLength,
        positionInHunk |-> first,
        diffLines |-> ReplacingLines(oldLineNumber, oldLength, newLineNumber, newLength, first)]

\* The lengths of the two sides of a hunk: one side at least has a line.
HunkLengths == ((0..MaxLength) \X (0..MaxLength)) \ {<<0, 0>>}

\* The hunk lists of a file: no hunk, one hunk after at most one unchanged
\* line, or two hunks with one unchanged line between them.
RangeHunkLists ==
    {<<>>}
    \cup {<< ReplacingHunk(gap, l[1], gap, l[2], 0) >> : gap \in 0..1, l \in HunkLengths}
    \cup {<< ReplacingHunk(gap, l[1], gap, l[2], 0),
             ReplacingHunk(gap + l[1] + 1, m[1], gap + l[2] + 1, m[2], l[1] + l[2] + 1) >> :
             gap \in 0..1, l \in HunkLengths, m \in HunkLengths}

RgInit ==
    /\ \E diffHunks \in RangeHunkLists, isPartial \in BOOLEAN :
          grFile = InMemFileChangeNode("f", isPartial, diffHunks, "pr", <<>>)
    /\ grIsBase \in BOOLEAN
    /\ grLineCount \in 1..MaxLines
    /\ grThreads = <<>>
    /\ grProvided = <<>>
    /\ grRanges = <<>>
    /\ grContent = NoContent
    /\ grDone = {}
    /\ RcIdle
    /\ NodeIdle

\* A call of providePRDocumentComments for the document of the side.
ProvideRanges ==
    /\ "provide" \notin grDone
    /\ LET info == providePRDocumentComments(GrDocument, PrNumber, <<grFile>>, FALSE)
       IN /\ grProvided' = info.threads
          /\ grRanges' = info.commentingRanges
    /\ grDone' = grDone \cup {"provide"}
    /\ UNCHANGED <<grFile, grIsBase, grThreads, grLineCount, grContent>>
    /\ UNCHANGED <<rcVars, remoteVars, nodeVars, outVars, refreshVars>>

RgNext == ProvideRanges

SpecRanges == RgInit /\ [][RgNext]_vars

\* The lines of a commenting range, first to last.
RangeLines(range) == range[1]..range[2]

\* The lines, 0-based, of a hunk's extent on a side.
ExtentLines(diffHunk, isBase) ==
    LET start == IF isBase THEN diffHunk.oldLineNumber ELSE diffHunk.newLineNumber
        length == IF isBase THEN diffHunk.oldLength ELSE diffHunk.newLength
    IN {start + i - 2 : i \in 1..length}

\* C20: for a partial file change the commenting ranges are the one range from
\* line 0 to the document's line count; for any other there is one range per
\* hunk, in hunk order, whose lines are the hunk's old lines on the base side
\* and its new lines on the head side.
C20_RangePerHunkExtent ==
    "provide" \in grDone =>
        IF grFile.isPartial
        THEN grRanges = << <<0, grLineCount>> >>
        ELSE /\ Len(grRanges) = Len(grFile.diffHunks)
             /\ \A i \in 1..Len(grRanges) :
                   RangeLines(grRanges[i]) = ExtentLines(grFile.diffHunks[i], grIsBase)

\* --------------------------------------------------- the document-content spec
\* GitChangeType, as far as provideDocumentContent tells the values apart.
GitChangeTypes == {"ADD", "DELETE", "MODIFY", "RENAME"}

\* A file change with its status.
WithStatus(fileChange, status) ==
    [f \in DOMAIN fileChange \cup {"status"} |->
        IF f = "status" THEN status ELSE fileChange[f]]

\* Array.prototype.join('\n'), as the lines of the string it builds: the texts,
\* and one empty line when there is no text.
Join(texts) == IF texts = <<>> THEN <<"">> ELSE texts

\* Mutant: only the lines of the other side are left out, control lines stay.
PushedOnSide_KeepsControl(diffLine, isBase) ==
    IF isBase THEN diffLine.type # Add ELSE diffLine.type # Delete

\* Whether the loop of a side pushes the text of a diff line.
PushedOnSide(diffLine, isBase) ==
    IF isBase
    THEN IF diffLine.type = Add THEN FALSE
         ELSE IF diffLine.type = Delete THEN TRUE
         ELSE IF diffLine.type = Control THEN FALSE
         ELSE TRUE
    ELSE IF diffLine.type = Add THEN TRUE
         ELSE IF diffLine.type = Delete THEN FALSE
         ELSE IF diffLine.type = Control THEN FALSE
         ELSE TRUE

\* The array left (isBase) or right the loops over the hunks and lines build.
SideTexts(diffHunks, isBase) ==
    LET pushed == SelectSeq(AllDiffLines(diffHunks), LAMBDA diffLine :
                      PushedOnSide(diffLine, isBase))
    IN [i \in 1..Len(pushed) |-> pushed[i].text]

\* The lines of the base file as repository.show gives them: a line in a hunk has
\* the text of its diff line, any other line the text "unchanged"; the file ends
\* one line after the last hunk.
OriginalLines(diffHunks) ==
    LET old == SelectSeq(AllDiffLines(diffHunks), LAMBDA diffLine : diffLine.oldLineNumber > 0)
        last == IF diffHunks = <<>> THEN 0
                ELSE diffHunks[Len(diffHunks)].oldLineNumber + diffHunks[Len(diffHunks)].oldLength
    IN [n \in 1..(last + 1) |->
           LET at == SelectSeq(old, LAMBDA diffLine : diffLine.oldLineNumber = n)
           IN IF at = <<>> THEN "unchanged" ELSE at[1].text]

RECURSIVE ApplyHunks(_, _, _)
\* getModifiedContentFromDiffHunk: the original lines from line cursor on, with
\* the old lines of each hunk replaced by the hunk's head-side lines.
ApplyHunks(originalLines, diffHunks, cursor) ==
    IF diffHunks = <<>> THEN SubSeq(originalLines, cursor, Len(originalLines))
    ELSE LET diffHunk == Head(diffHunks)
             before == IF diffHunk.oldLength = 0 THEN diffHunk.oldLineNumber
                       ELSE diffHunk.oldLineNumber - 1
         IN SubSeq(originalLines, cursor, before)
            \o SideTexts(<<diffHunk>>, FALSE)
            \o ApplyHunks(originalLines, Tail(diffHunks), before + diffHunk.oldLength + 1)

\* provideDocumentContent once the file change of the resource is found.
ContentOfFileChange(fileChange, isBase) ==
    IF fileChange.isPartial \/ fileChange.status = "ADD" \/ fileChange.status = "DELETE"
    THEN Join(SideTexts(fileChange.diffHunks, isBase))
    ELSE IF isBase THEN Join(OriginalLines(fileChange.diffHunks))
    ELSE Join(ApplyHunks(OriginalLines(fileChange.diffHunks), fileChange.diffHunks, 1))

\* provideDocumentContent: '' for a resource that is no pull request resource or
\* has no in-memory file change.
provideDocumentContent(changes, uri) ==
    LET params == fromPRUri(uri)
        found == SelectSeq(changes, LAMBDA contentChange :
                     contentChange.kind = "InMem" /\ contentChange.fileName = params.fileName)
    IN IF ~params.valid THEN Join(<<>>)
       ELSE IF found # <<>> THEN ContentOfFileChange(found[1], params.isBase)
       ELSE Join(<<>>)

\* The scenario's hunk followed by a second hunk that replaces old line 6.
TwoHunks == << ScenarioHunk, ReplacingHunk(5, 1, 6, 1, 6) >>

\* The hunk lists a file of a status can have: an added file has one hunk without
\* old lines, a deleted file one hunk without new lines.
ContentHunkLists(status) ==
    IF status = "ADD"
    THEN {<< ReplacingHunk(0, 0, 0, n, 0) >> : n \in 1..MaxLength}
    ELSE IF status = "DELETE"
    THEN {<< ReplacingHunk(0, n, 0, 0, 0) >> : n \in 1..MaxLength}
    ELSE RangeHunkLists \cup {ScenarioHunks, GrownHunks, TwoHunks}

CtInit ==
    /\ \E status \in GitChangeTypes, isPartial \in BOOLEAN :
       \E diffHunks \in ContentHunkLists(status) :
          grFile = WithStatus(InMemFileChangeNode("f", isPartial, diffHunks, "pr", <<>>), status)
    /\ grIsBase \in BOOLEAN
    /\ grLineCount = 4
    /\ grThreads = <<>>
    /\ grProvided = <<>>
    /\ grRanges = <<>>
    /\ grContent = NoContent
    /\ grDone = {}
    /\ RcIdle
    /\ NodeIdle

\* A call of provideDocumentContent for a resource of the side.
ProvideContent ==
    /\ "content" \notin grDone
    /\ \E scheme \in Schemes, fileName \in {"f", "x"} :
          grContent' = [uri |-> Resource(scheme, fileName, grIsBase),
                        text |-> provideDocumentContent(<<grFile>>,
                                     Resource(scheme, fileName, grIsBase))]
    /\ grDone' = grDone \cup {"content"}
    /\ UNCHANGED <<grFile, grIsBase, grThreads, grProvided, grLineCount, grRanges>>
    /\ UNCHANGED <<rcVars, remoteVars, nodeVars, outVars, refreshVars>>

CtNext == ProvideContent

SpecContent == CtInit /\ [][CtNext]_vars

\* The texts of the diff lines of the kinds, in hunk and line order.
TextsOfKinds(diffHunks, kinds) ==
    LET lines == AllDiffLines(diffHunks)
        kept == SortedSeq({i \in 1..Len(lines) : lines[i].type \in kinds})
    IN [k \in 1..Len(kept) |-> lines[kept[k]].text]

\* The content was read from the diff hunks of file "f".
ReadFromDiffHunks ==
    /\ "content" \in grDone
    /\ grContent.uri.scheme = "pr"
    /\ grContent.uri.fileName = "f"
    /\ grFile.isPartial \/ grFile.status \in {"ADD", "DELETE"}

\* C21: for a partial, added or deleted file the base content is the texts of
\* exactly the context and delete lines of all hunks, and the head content the
\* texts of exactly the context and add lines, in hunk and line order, joined by
\* newlines; no control line is in either.
C21_ContentFromDiffLines ==
    ReadFromDiffHunks =>
        grContent.text = Join(TextsOfKinds(grFile.diffHunks,
                                  IF grIsBase THEN {Context, Delete} ELSE {Context, Add}))

\* C21 witness: the head content of a partial file of two hunks with context,
\* delete, add and control lines was provided.
C21_Witness ==
    /\ ReadFromDiffHunks
    /\ ~grIsBase
    /\ grFile.diffHunks = TwoHunks
    /\ grContent.text = <<"context", "new line A", "new line B", "context2", "new">>

\* ----------------------------------------------------------- grouping claims
\* The indices of the comments of position p, and the comments in arrival order.
IndicesAt(comments, p) == {i \in 1..Len(comments) : comments[i].position = p}
PartitionAt(comments, p) ==
    LET idx == SortedSeq(IndicesAt(comments, p))
    IN [k \in 1..Len(idx) |-> comments[idx[k]]]

\* The anchor of the partition of position p resolves to a line.
Resolves(p) ==
    CommentAbsolutePosition(grFile, PartitionAt(grFile.comments, p)[1], grIsBase) >= 0

\* The threads are the partitions by position: the partition of a position that
\* resolves is one thread, named after its first comment, with exactly the
\* partition's comments in arrival order; no other thread exists.
GroupedByPosition(threads) ==
    LET comments == grFile.comments
        positions == {comments[i].position : i \in 1..Len(comments)}
    IN /\ \A p \in positions :
             LET part == PartitionAt(comments, p)
                 mine == {t \in 1..Len(threads) :
                             MemberIds(threads[t]) \cap {ToString(part[k].id) : k \in 1..Len(part)} # {}}
             IN IF Resolves(p)
                THEN /\ Cardinality(mine) = 1
                     /\ \A t \in mine :
                           /\ threads[t].threadId = ToString(part[1].id)
                           /\ Len(threads[t].comments) = Len(part)
                           /\ \A k \in 1..Len(part) :
                                 threads[t].comments[k].commentId = ToString(part[k].id)
                ELSE mine = {}
       /\ Len(threads) = Cardinality({p \in positions : Resolves(p)})

\* C9: grouping puts the comments of one position into one thread named after the
\* first of them in arrival order, with exactly those comments in arrival order;
\* comments of different positions never share a thread.
C9_OneThreadPerPosition ==
    /\ "group" \in grDone => GroupedByPosition(grThreads)
    /\ "provide" \in grDone => GroupedByPosition(grProvided)

C9_Witness ==
    /\ "group" \in grDone
    /\ "provide" \in grDone
    /\ Len(grThreads) = 2
    /\ \E t \in 1..Len(grThreads) :
          /\ Len(grThreads[t].comments) = 2
          /\ grThreads[t].threadId = <<3>>
          /\ grThreads[t].comments[2].commentId = <<1>>
    /\ grProvided[1].threadId = grThreads[1].threadId

\* C10: with unique comment ids the threads of one grouping call have pairwise
\* distinct identities and every comment is a member of at most one thread.
DistinctThreads(threads) ==
    /\ \A s, t \in 1..Len(threads) : s # t => threads[s].threadId # threads[t].threadId
    /\ \A i \in 1..Len(grFile.comments) :
          LET cid == ToString(grFile.comments[i].id)
          IN Cardinality({<<t, k>> \in (1..Len(threads)) \X (1..Len(grFile.comments)) :
                 /\ k <= Len(threads[t].comments)
                 /\ threads[t].comments[k].commentId = cid}) <= 1

C10_ThreadIdentitiesDistinct ==
    /\ "group" \in grDone => DistinctThreads(grThreads)
    /\ "provide" \in grDone => DistinctThreads(grProvided)

C10_Witness ==
    /\ "group" \in grDone
    /\ Len(grThreads) = 2
    /\ Len(grFile.comments) = 3

\* The string ids of the comments of the file change whose partition's first
\* comment resolves (or does not resolve) to a line.
IdsResolving(fileChange, isBase, resolving) ==
    {ToString(fileChange.comments[i].id) : i \in
        {k \in 1..Len(fileChange.comments) :
            (CommentAbsolutePosition(fileChange,
                 PartitionAt(fileChange.comments, fileChange.comments[k].position)[1],
                 isBase) >= 0) = resolving}}

\* The string ids of the members of the threads.
AllMemberIds(threads) == UNION {MemberIds(threads[t]) : t \in 1..Len(threads)}

\* The grouping left the comment list as it was, made no thread of a partition
\* that does not resolve, and made a thread of every partition that resolves.
DropsOnlyFromThreads(before, after, threads, isBase) ==
    /\ after.comments = before.comments
    /\ AllMemberIds(threads) \cap IdsResolving(before, isBase, FALSE) = {}
    /\ IdsResolving(before, isBase, TRUE) \subseteq AllMemberIds(threads)

\* C11: when the first comment of a partition resolves to a negative line, a
\* grouping call makes no thread of the partition and leaves the comment list of
\* the file change unchanged, so a later grouping, when the position resolves,
\* has the comments again.
C11_DroppedPartitionKeepsComments ==
    [][/\ ("group" \notin grDone /\ "group" \in grDone')
            => DropsOnlyFromThreads(grFile, grFile', grThreads', grIsBase)
       /\ ("provide" \notin grDone /\ "provide" \in grDone')
            => DropsOnlyFromThreads(grFile, grFile', grProvided', grIsBase)]_vars

\* After the context grew, a grouping has a thread for the position that did
\* not resolve before, next to a thread that always resolved.
C11_Witness ==
    /\ grFile.diffHunks = GrownHunks
    /\ "group" \in grDone
    /\ \E i \in 1..Len(grFile.comments) :
          /\ grFile.comments[i].position = 6
          /\ ToString(grFile.comments[i].id) \in AllMemberIds(grThreads)
    /\ Len(grThreads) = 2

\* The two thread lists have, thread by thread, the same identity, anchor line
\* and member list.
SameThreads(first, second) ==
    /\ Len(first) = Len(second)
    /\ \A t \in 1..Len(first) :
          /\ first[t].threadId = second[t].threadId
          /\ first[t].range = second[t].range
          /\ first[t].comments = second[t].comments

InMemFiles == {"a", "b"}

\* The positions other users comment at (the deleted and the first added line).
NodePositions == {2, 3}

\* The document lines a new thread is opened at: line 1 (the deleted line on the
\* base side, the first added line on the head side) and a line outside the diff.
CreateLines == {1, 9}

\* The comments getChildren hands to the file change of one file: those of its
\* path whose position is not null.
CommentsOfFile(comments, fileName) ==
    SelectSeq(comments, LAMBDA comment :
        comment.path = fileName /\ comment.position # NullPosition)

\* Mutant: the comments of a file are not filtered by position.
BuildFileChanges_NoNullFilter(comments) ==
    << InMemFileChangeNode("a", FALSE, ScenarioHunks, "pr",
           SelectSeq(comments, LAMBDA comment : comment.path = "a")),
       InMemFileChangeNode("b", TRUE, ScenarioHunks, "pr",
           SelectSeq(comments, LAMBDA comment : comment.path = "b")),
       RemoteFileChangeNode("r") >>

\* The file changes getChildren builds from the fetched comments.
BuildFileChanges(comments) ==
    << InMemFileChangeNode("a", FALSE, ScenarioHunks, "pr", CommentsOfFile(comments, "a")),
       InMemFileChangeNode("b", TRUE, ScenarioHunks, "pr", CommentsOfFile(comments, "b")),
       RemoteFileChangeNode("r") >>

\* The document of one side of a file.
Document(fileName, isBase) == [uri |-> Resource("pr", fileName, isBase), lineCount |-> 4]

\* _prManager.inDraftMode
inDraftMode == pendingReview # 0

\* findMatchingFileNode, for the documents of the in-memory files: the index in
\* this._fileChanges.
findMatchingFileNode(fileName) ==
    CHOOSE i \in 1..Len(fileChanges) :
        /\ fileChanges[i].fileName = fileName
        /\ \A j \in 1..(i - 1) : fileChanges[j].fileName # fileName

\* findMatchingFileNode throws: no file change has the fileName, or the first
\* that has it is a RemoteFileChangeNode.
FileNotFound(fileName) ==
    \/ MatchingFileChange(fileChanges, fileName) = <<>>
    \/ MatchingFileChange(fileChanges, fileName)[1].kind = "Remote"

Event(kind, added, changed, removed, draft, deletedComments) ==
    [kind |-> kind, added |-> added, changed |-> changed, removed |-> removed,
     inDraftMode |-> draft, oldFileChanges |-> fileChanges, deletedComments |-> deletedComments]

\* No event and no returned value is on its way to the editor.
Quiet == lastEvent = NoEvent /\ delivered = NoDelivery

\* The ids of the comments of a list.
IdsOf(comments) == {comments[i].id : i \in 1..Len(comments)}

\* The ids of the comments in the comment list of the file change of a file.
LocalIds(fileName) ==
    UNION {IdsOf(fileChanges[i].comments) : i \in
              {k \in 1..Len(fileChanges) : fileChanges[k].fileName = fileName}}

\* The ids of the comments that have been in a comment list and are in none
\* now; the editor may still show such a comment in a document.
StaleIds ==
    {id \in shown :
        \A i \in 1..Len(fileChanges) : id \notin IdsOf(fileChanges[i].comments)}

\* The ids shown once the comment lists are those of the file changes.
Shown(changes) ==
    shown \cup UNION {IdsOf(changes[i].comments) : i \in 1..Len(changes)}

\* The comments the editor may pass for a document of a file.
CommentArguments(fileName) == LocalIds(fileName) \cup StaleIds

\* The files the editor has documents of.
DocumentFiles == InMemFiles \cup {"r"}

Init ==
    /\ NodeIdle
    /\ RcIdle
    /\ GrIdle

\* Another user adds a review comment on the remote host.
RemoteAdd ==
    /\ Quiet
    /\ nextId <= MaxComments
    /\ \E path \in InMemFiles, position \in NodePositions :
          remote' = Append(remote, RawComment(nextId, path, position, "a", FALSE, 0))
    /\ nextId' = nextId + 1
    /\ lastEvent' = NoEvent
    /\ delivered' = NoDelivery
    /\ UNCHANGED <<pendingReview, nextReview, nodeVars, rcVars, grVars, refreshVars>>

\* Another user adds a comment that is not anchored to a line: its position is null.
RemoteAddUnanchored ==
    /\ Quiet
    /\ nextId <= MaxComments
    /\ \E path \in InMemFiles :
          remote' = Append(remote, RawComment(nextId, path, NullPosition, "a", FALSE, 0))
    /\ nextId' = nextId + 1
    /\ lastEvent' = NoEvent
    /\ delivered' = NoDelivery
    /\ UNCHANGED <<pendingReview, nextReview, nodeVars, rcVars, grVars, refreshVars>>

\* A review comment is deleted on the remote host, outside the editor.
RemoteDelete ==
    /\ Quiet
    /\ \E i \in 1..Len(remote) :
          /\ remote' = SelectSeq(remote, LAMBDA c : c.id # remote[i].id)
    /\ lastEvent' = NoEvent
    /\ delivered' = NoDelivery
    /\ UNCHANGED <<pendingReview, nextId, nextReview, nodeVars, rcVars, grVars, refreshVars>>

\* What getChildren returns; reconciled tells whether updateComments ran.
ChildrenReturned(ok, reconciled) ==
    Delivery("getChildren", ok, <<>>, "none", [reconciled |-> reconciled])

\* The first getChildren: the comments are fetched, the file changes built and
\* stored, and the document comment provider registered; no event is fired.
GetChildrenRegister ==
    /\ Quiet
    /\ ~registered
    /\ fileChanges' = BuildFileChanges(remote)
    /\ registered' = TRUE
    /\ shown' = Shown(fileChanges')
    /\ lastEvent' = NoEvent
    /\ delivered' = ChildrenReturned(TRUE, FALSE)
    /\ listeners' = Subscribed(listeners)
    /\ UNCHANGED <<remoteVars, rcVars, grVars, calls, computed, creating, active>>

\* The event updateComments fires for a delta, none when the delta is empty.
UpdateEvent(delta) ==
    IF Len(delta.added) # 0 \/ Len(delta.removed) # 0 \/ Len(delta.changed) # 0
    THEN Event("updateComments", delta.added, delta.changed, delta.removed, inDraftMode, <<>>)
    ELSE NoEvent

\* A later getChildren: the comments are fetched, the file changes built,
\* updateComments fires the delta against this._fileChanges when it is not empty,
\* and the new file changes are stored.
GetChildrenUpdate ==
    /\ Quiet
    /\ registered
    /\ lastEvent' = UpdateEvent(UpdateCommentsDelta(fileChanges, BuildFileChanges(remote)))
    /\ fileChanges' = BuildFileChanges(remote)
    /\ delivered' = ChildrenReturned(TRUE, TRUE)
    /\ UNCHANGED <<registered, remoteVars, rcVars, grVars, refreshVars>>
    /\ shown' = Shown(fileChanges')

\* provideDocumentComments for a document of the pull request.
ProvideDocumentComments ==
    /\ Quiet
    /\ registered
    /\ \E fileName \in DocumentFiles, isBase \in BOOLEAN :
          LET info == providePRDocumentComments(Document(fileName, isBase), PrNumber,
                                                fileChanges, inDraftMode)
          IN delivered' = Delivery("provideDocumentComments", info.defined, info.threads, "none",
                                   [fileName |-> fileName, isBase |-> isBase])
    /\ lastEvent' = NoEvent
    /\ UNCHANGED <<remoteVars, nodeVars, rcVars, grVars, refreshVars>>

\* Mutant: a negative position is passed on to createComment.
PositionRejected_Never(position) == FALSE

\* createNewCommentThread throws 'Comment position cannot be negative'.
PositionRejected(position) == position < 0

\* The thread createNewCommentThread returns.
NewCommentThread(rawComment, uri, line) ==
    [threadId |-> ToString(rawComment.id), resource |-> uri, range |-> line,
     comments |-> <<ToVsComment(rawComment)>>, collapsibleState |-> "Undefined"]

\* createNewCommentThread at a line of a document; it throws when the line maps
\* to no diff position.
CreateNewCommentThread ==
    /\ Quiet
    /\ registered
    /\ nextId <= MaxComments
    /\ \E fileName \in InMemFiles, isBase \in BOOLEAN, line \in CreateLines :
          LET f == findMatchingFileNode(fileName)
              position == mapHeadLineToDiffHunkPosition(fileChanges[f].diffHunks, line + 1, isBase)
              rawComment == RawComment(nextId, fileName, position, "a", inDraftMode, pendingReview)
              input == [fileName |-> fileName, isBase |-> isBase, line |-> line,
                        position |-> position]
          IN IF PositionRejected(position)
             THEN /\ delivered' = Delivery("createNewCommentThread", FALSE, <<>>, "none", input)
                  /\ UNCHANGED <<remote, nextId, fileChanges>>
             ELSE /\ remote' = Append(remote, rawComment)
                  /\ nextId' = nextId + 1
                  /\ fileChanges' = [fileChanges EXCEPT ![f].comments = Append(@, rawComment)]
                  /\ delivered' = Delivery("createNewCommentThread", TRUE,
                                    << NewCommentThread(rawComment, Document(fileName, isBase).uri,
                                                        line) >>,
                                    "createComment", input)
    /\ lastEvent' = NoEvent
    /\ UNCHANGED <<pendingReview, nextReview, registered, rcVars, grVars, refreshVars>>
    /\ shown' = Shown(fileChanges')

\* The threads the editor may pass to replyToCommentThread for a document: those
\* it shows, and a thread it still shows of a comment that no longer exists.
ThreadArguments(fileName, isBase) ==
    LET threads == providePRDocumentComments(Document(fileName, isBase), PrNumber,
                                             fileChanges, inDraftMode).threads
    IN {threads[t] : t \in 1..Len(threads)}
       \cup {[threadId |-> ToString(id), resource |-> Document(fileName, isBase).uri,
              range |-> 0, comments |-> <<>>, collapsibleState |-> "Expanded"] : id \in StaleIds}

\* The comment of the file change that the thread is named after, if any.
CommentFromThread(fileName, thread) ==
    SelectSeq(fileChanges[findMatchingFileNode(fileName)].comments,
              LAMBDA c : ToString(c.id) = thread.threadId)

\* replyToCommentThread on a thread of a document; it throws when the file or the
\* comment the thread is named after is not found.
ReplyToCommentThread ==
    /\ Quiet
    /\ registered
    /\ nextId <= MaxComments
    /\ \E fileName \in DocumentFiles, isBase \in BOOLEAN :
          \E thread \in ThreadArguments(fileName, isBase) :
             LET input == [fileName |-> fileName, threadId |-> thread.threadId]
             IN IF FileNotFound(fileName) \/ CommentFromThread(fileName, thread) = <<>>
                THEN /\ delivered' = Delivery("replyToCommentThread", FALSE, <<>>, "none", input)
                     /\ UNCHANGED <<remote, nextId, fileChanges>>
                ELSE LET found == CommentFromThread(fileName, thread)
                         rawComment == RawComment(nextId, found[1].path, found[1].position, "a",
                                                  inDraftMode, pendingReview)
                     IN /\ remote' = Append(remote, rawComment)
                        /\ nextId' = nextId + 1
                        /\ fileChanges' = [fileChanges EXCEPT
                               ![findMatchingFileNode(fileName)].comments = Append(@, rawComment)]
                        /\ delivered' = Delivery("replyToCommentThread", TRUE,
                                          << [thread EXCEPT !.comments =
                                                 Append(@, ToVsComment(rawComment))] >>,
                                          "createCommentReply", input)
    /\ lastEvent' = NoEvent
    /\ UNCHANGED <<pendingReview, nextReview, registered, rcVars, grVars, refreshVars>>
    /\ shown' = Shown(fileChanges')

\* findIndex: the first index of the comment of the id, 0 when there is none.
FindIndex(comments, id) ==
    LET at == {k \in 1..Len(comments) : comments[k].id = id}
    IN IF at = {} THEN 0 ELSE CHOOSE k \in at : \A m \in at : k <= m

\* splice(index, 1, rawComment) when the index is found.
SpliceIn(comments, id, rawComment) ==
    IF FindIndex(comments, id) = 0 THEN comments
    ELSE [comments EXCEPT ![FindIndex(comments, id)] = rawComment]

\* Mutant: splice(index) takes the comment and all that follow it off the list.
SpliceOut_ToEnd(comments, id) ==
    IF FindIndex(comments, id) = 0 THEN comments
    ELSE SubSeq(comments, 1, FindIndex(comments, id) - 1)

\* splice(index, 1) when the index is found.
SpliceOut(comments, id) ==
    IF FindIndex(comments, id) = 0 THEN comments
    ELSE SubSeq(comments, 1, FindIndex(comments, id) - 1)
         \o SubSeq(comments, FindIndex(comments, id) + 1, Len(comments))

\* editComment of a comment of a document; it throws when the file or the comment
\* is not found, else the edit is sent and the returned comment spliced in. The
\* remote host rejects the edit of a comment it has not, and the request throws.
EditComment ==
    /\ Quiet
    /\ registered
    /\ \E fileName \in DocumentFiles, text \in Bodies :
          \E id \in CommentArguments(fileName) :
             LET input == [fileName |-> fileName, commentId |-> id]
             IN IF FileNotFound(fileName) \/ id \notin LocalIds(fileName)
                THEN /\ delivered' = Delivery("editComment", FALSE, <<>>, "none", input)
                     /\ UNCHANGED <<remote, fileChanges>>
                ELSE IF id \notin IdsOf(remote)
                THEN /\ delivered' = Delivery("editComment", FALSE, <<>>, "editReviewComment",
                                              input)
                     /\ UNCHANGED <<remote, fileChanges>>
                ELSE /\ remote' = [i \in 1..Len(remote) |->
                                      IF remote[i].id = id THEN [remote[i] EXCEPT !.body = text]
                                      ELSE remote[i]]
                     /\ fileChanges' = [fileChanges EXCEPT ![findMatchingFileNode(fileName)].comments =
                                           SpliceIn(@, id, [@[FindIndex(@, id)] EXCEPT !.body = text])]
                     /\ delivered' = Delivery("editComment", TRUE, <<>>, "editReviewComment", input)
    /\ lastEvent' = NoEvent
    /\ UNCHANGED <<pendingReview, nextId, nextReview, registered, rcVars, grVars, refreshVars>>
    /\ shown' = Shown(fileChanges')

\* deleteComment of a comment of a document; it throws when the file is not
\* found, else the delete is sent, the comment spliced out of the comment list
\* if it is there, and an empty event fired. The remote host may accept or
\* reject the delete of a comment it has not; a rejected request throws.
DeleteComment ==
    /\ Quiet
    /\ registered
    /\ \E fileName \in DocumentFiles :
          \E id \in CommentArguments(fileName) :
             LET input == [fileName |-> fileName, commentId |-> id]
             IN IF FileNotFound(fileName)
                THEN /\ delivered' = Delivery("deleteComment", FALSE, <<>>, "none", input)
                     /\ lastEvent' = NoEvent
                     /\ UNCHANGED <<remote, fileChanges>>
                ELSE \E accepted \in {id \in IdsOf(remote), TRUE} :
                     IF accepted
                     THEN /\ remote' = SelectSeq(remote, LAMBDA c : c.id # id)
                          /\ fileChanges' = [fileChanges EXCEPT
                                 ![findMatchingFileNode(fileName)].comments = SpliceOut(@, id)]
                          /\ lastEvent' = Event("deleteComment", <<>>, <<>>, <<>>, inDraftMode, <<>>)
                          /\ delivered' = Delivery("deleteComment", TRUE, <<>>,
                                                   "deleteReviewComment", input)
                     ELSE /\ delivered' = Delivery("deleteComment", FALSE, <<>>,
                                                   "deleteReviewComment", input)
                          /\ lastEvent' = NoEvent
                          /\ UNCHANGED <<remote, fileChanges>>
    /\ UNCHANGED <<pendingReview, nextId, nextReview, registered, rcVars, grVars, refreshVars>>
    /\ shown' = Shown(fileChanges')

\* startDraft: a review is started on the remote host, then an empty event fired.
StartDraft ==
    /\ Quiet
    /\ registered
    /\ pendingReview = 0
    /\ nextReview <= MaxReviews
    /\ pendingReview' = nextReview
    /\ nextReview' = nextReview + 1
    /\ lastEvent' = Event("startDraft", <<>>, <<>>, <<>>, TRUE, <<>>)
    /\ delivered' = NoDelivery
    /\ UNCHANGED <<remote, nextId, nodeVars, rcVars, grVars, refreshVars>>

\* The event updateCommentPendingState fires.
PendingStateEvent(threads) ==
    Event("updateCommentPendingState", <<>>, threads, <<>>, FALSE, <<>>)

\* finishDraft: the review is submitted, and the onDidSubmitReview listener runs
\* updateCommentPendingState.
FinishDraft ==
    /\ Quiet
    /\ registered
    /\ pendingReview # 0
    /\ remote' = [i \in 1..Len(remote) |->
                     IF remote[i].pullRequestReviewId = pendingReview
                     THEN [remote[i] EXCEPT !.isDraft = FALSE] ELSE remote[i]]
    /\ pendingReview' = 0
    /\ fileChanges' = SubmittedFileChanges(fileChanges)
    /\ lastEvent' = PendingStateEvent(PendingStateThreads(SubmittedFileChanges(fileChanges)))
    /\ delivered' = NoDelivery
    /\ UNCHANGED <<nextId, nextReview, registered, rcVars, grVars, refreshVars>>
    /\ shown' = Shown(fileChanges')

\* _prManager.deleteReview: the comments of the pending review.
DeletedReviewComments == SelectSeq(remote, LAMBDA c : c.pullRequestReviewId = pendingReview)

\* The event deleteDraft fires.
DeleteDraftEvent(delta, deletedReviewComments) ==
    Event("deleteDraft", <<>>, delta.changed, delta.removed, FALSE, deletedReviewComments)

\* deleteDraft: the pending review is deleted on the remote host, the threads of
\* the files of its comments are reported, and its comments leave the file changes.
DeleteDraft ==
    /\ Quiet
    /\ registered
    /\ pendingReview # 0
    /\ remote' = SelectSeq(remote, LAMBDA c : c.pullRequestReviewId # pendingReview)
    /\ fileChanges' = DeleteDraftFileChanges(fileChanges, DeletedReviewComments, pendingReview)
    /\ lastEvent' = DeleteDraftEvent(DeleteDraftDelta(fileChanges, DeletedReviewComments),
                                     DeletedReviewComments)
    /\ pendingReview' = 0
    /\ delivered' = NoDelivery
    /\ UNCHANGED <<nextId, nextReview, registered, rcVars, grVars, refreshVars>>
    /\ shown' = Shown(fileChanges')

\* The editor takes the fired event or the returned threads: the listeners of
\* onDidChangeCommentThreads run inside fire, and a provider call is awaited,
\* before the node handles anything else.
EditorReceives ==
    /\ ~Quiet
    /\ lastEvent' = NoEvent
    /\ delivered' = NoDelivery
    /\ UNCHANGED <<remoteVars, nodeVars, rcVars, grVars, refreshVars>>

Next ==
    \/ EditorReceives
    \/ RemoteAdd
    \/ RemoteDelete
    \/ GetChildrenRegister
    \/ GetChildrenUpdate
    \/ ProvideDocumentComments
    \/ CreateNewCommentThread
    \/ ReplyToCommentThread
    \/ DeleteComment
    \/ StartDraft
    \/ FinishDraft
    \/ DeleteDraft

Spec == Init /\ [][Next]_vars

\* getChildren when the diff of one file cannot be parsed and parseDiff throws:
\* the one catch of getChildren returns no children; nothing is stored and
\* updateComments does not run.
GetChildrenFails ==
    /\ Quiet
    /\ lastEvent' = NoEvent
    /\ \E failing \in InMemFiles :
          delivered' = Delivery("getChildren", FALSE, <<>>, "none",
                                [reconciled |-> FALSE, failing |-> failing])
    /\ UNCHANGED <<remoteVars, nodeVars, rcVars, grVars, refreshVars>>

\* The node outside a review draft, with every comment handler and every
\* argument the editor may pass.
CommentsNext ==
    \/ EditorReceives
    \/ RemoteAdd
    \/ RemoteAddUnanchored
    \/ RemoteDelete
    \/ GetChildrenRegister
    \/ GetChildrenUpdate
    \/ GetChildrenFails
    \/ ProvideDocumentComments
    \/ CreateNewCommentThread
    \/ ReplyToCommentThread
    \/ EditComment
    \/ DeleteComment

SpecComments == Init /\ [][CommentsNext]_vars

\* ------------------------------------------------- getChildren, await by await
\* The delta has a thread, so updateComments fires it.
HasThreads(delta) ==
    Len(delta.added) # 0 \/ Len(delta.removed) # 0 \/ Len(delta.changed) # 0

\* A call of getChildren up to its await of the comments and the file changes:
\* nothing on entry looks at a call in progress; the call has built its file
\* changes from the comments fetched.
RefreshFetch(c) ==
    /\ Quiet
    /\ calls[c].pc = "idle"
    /\ calls' = [calls EXCEPT ![c] = [pc |-> "fetched", fileChanges |-> BuildFileChanges(remote),
                                      delta |-> EmptyDelta]]
    /\ UNCHANGED <<computed, creating, listeners, remoteVars, nodeVars, outVars, rcVars, grVars, active>>

\* The call, with the provider registered, enters updateComments: the delta
\* against this._fileChanges is computed up to the await of inDraftMode (or, for
\* a delta without threads, up to the await of updateComments itself).
RefreshReconcile(c) ==
    /\ Quiet
    /\ calls[c].pc = "fetched"
    /\ registered
    /\ LET delta == UpdateCommentsDelta(fileChanges, calls[c].fileChanges)
       IN /\ calls' = [calls EXCEPT ![c].pc = "reconciled", ![c].delta = delta]
          /\ computed' = IF HasThreads(delta) THEN Append(computed, c) ELSE computed
    /\ UNCHANGED <<creating, listeners, remoteVars, nodeVars, outVars, rcVars, grVars, active>>

\* inDraftMode has answered: the call fires the delta it computed.
RefreshFire(c) ==
    /\ Quiet
    /\ calls[c].pc = "reconciled"
    /\ HasThreads(calls[c].delta)
    /\ lastEvent' = Event("updateComments", calls[c].delta.added, calls[c].delta.changed,
                          calls[c].delta.removed, inDraftMode, <<>>)
    /\ delivered' = NoDelivery
    /\ calls' = [calls EXCEPT ![c].pc = "fired"]
    /\ computed' = SelectSeq(computed, LAMBDA other : other # c)
    /\ UNCHANGED <<creating, listeners, remoteVars, nodeVars, rcVars, grVars, active>>

\* updateComments has returned: the call stores its file changes and returns.
RefreshStore(c) ==
    /\ Quiet
    /\ \/ calls[c].pc = "fired"
       \/ calls[c].pc = "reconciled" /\ ~HasThreads(calls[c].delta)
    /\ fileChanges' = calls[c].fileChanges
    /\ shown' = Shown(fileChanges')
    /\ calls' = [calls EXCEPT ![c] = IdleCall]
    /\ lastEvent' = NoEvent
    /\ delivered' = ChildrenReturned(TRUE, TRUE)
    /\ creating' = Replaced(creating)
    /\ UNCHANGED <<listeners, active>>
    /\ UNCHANGED <<registered, computed, remoteVars, rcVars, grVars>>

\* The call, with no provider registered, stores its file changes and awaits
\* ensureCommentsProvider.
RefreshFirst(c) ==
    /\ Quiet
    /\ calls[c].pc = "fetched"
    /\ ~registered
    /\ fileChanges' = calls[c].fileChanges
    /\ shown' = Shown(fileChanges')
    /\ calls' = [calls EXCEPT ![c].pc = "registering"]
    /\ creating' = Replaced(creating)
    /\ UNCHANGED <<listeners, active>>
    /\ UNCHANGED <<registered, computed, remoteVars, outVars, rcVars, grVars>>

\* ensureCommentsProvider has answered: the call registers the provider and
\* returns.
RefreshRegister(c) ==
    /\ Quiet
    /\ calls[c].pc = "registering"
    /\ registered' = TRUE
    /\ calls' = [calls EXCEPT ![c] = IdleCall]
    /\ lastEvent' = NoEvent
    /\ delivered' = ChildrenReturned(TRUE, FALSE)
    /\ listeners' = Subscribed(listeners)
    /\ UNCHANGED <<fileChanges, shown, computed, creating, remoteVars, rcVars, grVars, active>>

RefreshNext ==
    \/ EditorReceives
    \/ RemoteAdd
    \/ RemoteDelete
    \/ \E c \in Calls : RefreshFetch(c)
    \/ \E c \in Calls : RefreshReconcile(c)
    \/ \E c \in Calls : RefreshFire(c)
    \/ \E c \in Calls : RefreshStore(c)
    \/ \E c \in Calls : RefreshFirst(c)
    \/ \E c \in Calls : RefreshRegister(c)

SpecRefresh == Init /\ [][RefreshNext]_vars

\* ------------------------------- createNewCommentThread and reply, await by await
\* createNewCommentThread up to its await of createComment: the file change
\* object is found and held, the position mapped, and the request sent.
CreateStart ==
    /\ Quiet
    /\ registered
    /\ creating.pc = "idle"
    /\ nextId <= MaxComments
    /\ \E fileName \in InMemFiles, isBase \in BOOLEAN, line \in CreateLines :
          LET f == findMatchingFileNode(fileName)
              position == mapHeadLineToDiffHunkPosition(fileChanges[f].diffHunks, line + 1, isBase)
              rawComment == RawComment(nextId, fileName, position, "a", inDraftMode, pendingReview)
              input == [fileName |-> fileName, isBase |-> isBase, line |-> line,
                        position |-> position]
          IN IF PositionRejected(position)
             THEN /\ delivered' = Delivery("createNewCommentThread", FALSE, <<>>, "none", input)
                  /\ UNCHANGED <<remote, nextId, creating>>
             ELSE /\ remote' = Append(remote, rawComment)
                  /\ nextId' = nextId + 1
                  /\ delivered' = NoDelivery
                  /\ creating' = [pc |-> "awaiting", op |-> "createNewCommentThread",
                                  fileName |-> fileName, current |-> TRUE,
                                  rawComment |-> rawComment,
                                  threads |-> << NewCommentThread(rawComment,
                                                    Document(fileName, isBase).uri, line) >>,
                                  input |-> input, created |-> creating.created]
    /\ lastEvent' = NoEvent
    /\ UNCHANGED <<pendingReview, nextReview, nodeVars, calls, computed, listeners, rcVars, grVars, active>>

\* replyToCommentThread up to its await of createCommentReply.
ReplyStart ==
    /\ Quiet
    /\ registered
    /\ creating.pc = "idle"
    /\ nextId <= MaxComments
    /\ \E fileName \in InMemFiles, isBase \in BOOLEAN :
          \E thread \in ThreadArguments(fileName, isBase) :
             LET input == [fileName |-> fileName, threadId |-> thread.threadId]
             IN IF CommentFromThread(fileName, thread) = <<>>
                THEN /\ delivered' = Delivery("replyToCommentThread", FALSE, <<>>, "none", input)
                     /\ UNCHANGED <<remote, nextId, creating>>
                ELSE LET found == CommentFromThread(fileName, thread)
                         rawComment == RawComment(nextId, found[1].path, found[1].position, "a",
                                                  inDraftMode, pendingReview)
                     IN /\ remote' = Append(remote, rawComment)
                        /\ nextId' = nextId + 1
                        /\ delivered' = NoDelivery
                        /\ creating' = [pc |-> "awaiting", op |-> "replyToCommentThread",
                                        fileName |-> fileName, current |-> TRUE,
                                        rawComment |-> rawComment,
                                        threads |-> << [thread EXCEPT !.comments =
                                                          Append(@, ToVsComment(rawComment))] >>,
                                        input |-> input, created |-> creating.created]
    /\ lastEvent' = NoEvent
    /\ UNCHANGED <<pendingReview, nextReview, nodeVars, calls, computed, listeners, rcVars, grVars, active>>

\* The remote host has answered: the comment is pushed onto the comment list of
\* the file change object held since entry, and the thread returned.  The push
\* shows in this._fileChanges only when the object is still one of them.
CreateFinish ==
    /\ Quiet
    /\ creating.pc = "awaiting"
    /\ fileChanges' = IF creating.current
                      THEN [fileChanges EXCEPT ![findMatchingFileNode(creating.fileName)].comments =
                               Append(@, creating.rawComment)]
                      ELSE fileChanges
    /\ shown' = Shown(fileChanges') \cup {creating.rawComment.id}
    /\ delivered' = Delivery(creating.op, TRUE, creating.threads,
                             IF creating.op = "createNewCommentThread"
                             THEN "createComment" ELSE "createCommentReply",
                             creating.input)
    /\ lastEvent' = NoEvent
    /\ creating' = NoCreate(creating.created \cup {creating.rawComment.id})
    /\ UNCHANGED <<registered, remoteVars, calls, computed, listeners, rcVars, grVars, active>>

\* One getChildren call at a time, interleaved with the comment calls.
CreateNext ==
    \/ EditorReceives
    \/ RefreshFetch(1)
    \/ RefreshReconcile(1)
    \/ RefreshFire(1)
    \/ RefreshStore(1)
    \/ RefreshFirst(1)
    \/ RefreshRegister(1)
    \/ CreateStart
    \/ ReplyStart
    \/ CreateFinish

SpecCreate == Init /\ [][CreateNext]_vars

\* ------------------------------------- getChildren when the changed files change
\* The file changes built when the pull request has the given in-memory files:
\* the file changes are mapped from the files fetched.
FileChangesOf(files, comments) ==
    SelectSeq(BuildFileChanges(comments), LAMBDA fileChange :
        fileChange.kind = "Remote" \/ fileChange.fileName \in files)

\* A call of getChildren up to its await of the comments and the file changes,
\* the pull request having the given changed files at the time.
RefreshFetchFiles(c) ==
    /\ Quiet
    /\ calls[c].pc = "idle"
    /\ \E files \in SUBSET InMemFiles :
          calls' = [calls EXCEPT ![c] = [pc |-> "fetched",
                                         fileChanges |-> FileChangesOf(files, remote),
                                         delta |-> EmptyDelta]]
    /\ UNCHANGED <<computed, creating, listeners, remoteVars, nodeVars, outVars, rcVars, grVars, active>>

FilesNext ==
    \/ EditorReceives
    \/ RemoteAdd
    \/ RefreshFetchFiles(1)
    \/ RefreshReconcile(1)
    \/ RefreshFire(1)
    \/ RefreshStore(1)
    \/ RefreshFirst(1)
    \/ RefreshRegister(1)

SpecFiles == Init /\ [][FilesNext]_vars

\* -------------------------------------------- the review-submitted notification
\* startDraft when startReview throws: the await rejects and nothing is fired.
StartDraftFails ==
    /\ Quiet
    /\ registered
    /\ pendingReview = 0
    /\ lastEvent' = NoEvent
    /\ delivered' = Delivery("startDraft", FALSE, <<>>, "startReview", <<>>)
    /\ UNCHANGED <<remoteVars, nodeVars, rcVars, grVars, refreshVars>>

\* finishDraft: the review is submitted on the remote host, and onDidSubmitReview
\* is raised: each subscribed listener has to run.
SubmitReview ==
    /\ Quiet
    /\ registered
    /\ pendingReview # 0
    /\ listeners.toRun = 0
    /\ remote' = [i \in 1..Len(remote) |->
                     IF remote[i].pullRequestReviewId = pendingReview
                     THEN [remote[i] EXCEPT !.isDraft = FALSE] ELSE remote[i]]
    /\ pendingReview' = 0
    /\ listeners' = [listeners EXCEPT !.toRun = listeners.subscribed]
    /\ lastEvent' = NoEvent
    /\ delivered' = NoDelivery
    /\ UNCHANGED <<nextId, nextReview, nodeVars, calls, computed, creating, rcVars, grVars, active>>

\* One listener of onDidSubmitReview runs updateCommentPendingState.
ListenerRuns ==
    /\ Quiet
    /\ listeners.toRun > 0
    /\ listeners' = [listeners EXCEPT !.toRun = @ - 1]
    /\ fileChanges' = SubmittedFileChanges(fileChanges)
    /\ shown' = Shown(fileChanges')
    /\ lastEvent' = PendingStateEvent(PendingStateThreads(SubmittedFileChanges(fileChanges)))
    /\ delivered' = NoDelivery
    /\ UNCHANGED <<registered, remoteVars, calls, computed, creating, rcVars, grVars, active>>

\* The getChildren calls that find no provider registered, the draft calls and
\* the notification.
SubmitNext ==
    \/ EditorReceives
    \/ \E c \in Calls : RefreshFetch(c)
    \/ \E c \in Calls : RefreshFirst(c)
    \/ \E c \in Calls : RefreshRegister(c)
    \/ CreateNewCommentThread
    \/ StartDraft
    \/ StartDraftFails
    \/ SubmitReview
    \/ ListenerRuns

SpecSubmit == Init /\ [][SubmitNext]_vars

\* ------------------------------------------------------ getChildren that fails
\* The steps of getChildren that may throw, in the order of the code, and the
\* missing merge base, on which it returns early.
FailingSteps ==
    {"getPullRequestComments", "getPullRequestFileChangesInfo", "mergeBase", "parseDiff",
     "updateComments", "ensureCommentsProvider"}

\* Mutant: the file changes built are stored before the step that fails.
StoredOnFailure_Always(step, built) == built

\* this._fileChanges after a call that failed at the step: the assignment comes
\* after the await of updateComments, and before that of ensureCommentsProvider.
StoredOnFailure(step, built) ==
    IF step = "ensureCommentsProvider" THEN built ELSE fileChanges

\* getChildren fails at a step, or finds no merge base: it returns no child.  It
\* reaches updateComments only with a provider registered, ensureCommentsProvider
\* only with none.
GetChildrenThrows ==
    /\ Quiet
    /\ \E step \in FailingSteps :
          /\ step = "updateComments" => registered
          /\ step = "ensureCommentsProvider" => ~registered
          /\ fileChanges' = StoredOnFailure(step, BuildFileChanges(remote))
          /\ delivered' = Delivery("getChildren", FALSE, <<>>, "none",
                                   [reconciled |-> FALSE, step |-> step])
    /\ shown' = Shown(fileChanges')
    /\ lastEvent' = NoEvent
    /\ UNCHANGED <<registered, remoteVars, rcVars, grVars, refreshVars>>

FailNext ==
    \/ EditorReceives
    \/ RemoteAdd
    \/ RemoteDelete
    \/ GetChildrenRegister
    \/ GetChildrenUpdate
    \/ GetChildrenThrows

SpecFail == Init /\ [][FailNext]_vars

\* ------------------------------------------- getChildren and the active pull request
\* Mutant: the node takes its own comment branch whatever the active pull request.
TakesNodeBranch_Always(isActive) == TRUE

\* !this.pullRequestModel.equals(this._prManager.activePullRequest)
TakesNodeBranch(isActive) == ~isActive

\* The user checks out the branch of the pull request, or another branch: the
\* pull request becomes, or stops being, the active one.
SetActive ==
    /\ Quiet
    /\ active' = ~active
    /\ UNCHANGED <<calls, computed, creating, listeners, remoteVars, nodeVars, outVars,
                   rcVars, grVars>>

\* The call finds the pull request not active and a provider registered.
NodeReconcile(c) == TakesNodeBranch(active) /\ RefreshReconcile(c)

\* The call finds the pull request not active and no provider registered.
NodeFirst(c) == TakesNodeBranch(active) /\ RefreshFirst(c)

\* The call finds the pull request active: it stores its file changes and returns.
StoreOnly(c) ==
    /\ Quiet
    /\ calls[c].pc = "fetched"
    /\ ~TakesNodeBranch(active)
    /\ fileChanges' = calls[c].fileChanges
    /\ shown' = Shown(fileChanges')
    /\ calls' = [calls EXCEPT ![c] = IdleCall]
    /\ creating' = Replaced(creating)
    /\ lastEvent' = NoEvent
    /\ delivered' = ChildrenReturned(TRUE, FALSE)
    /\ UNCHANGED <<registered, computed, listeners, active, remoteVars, rcVars, grVars>>

ActiveNext ==
    \/ EditorReceives
    \/ RemoteAdd
    \/ SetActive
    \/ RefreshFetch(1)
    \/ NodeReconcile(1)
    \/ RefreshFire(1)
    \/ RefreshStore(1)
    \/ NodeFirst(1)
    \/ RefreshRegister(1)
    \/ StoreOnly(1)

SpecActive == Init /\ [][ActiveNext]_vars

\* ------------------------------------------------------- claims on SpecCreate
\* No getChildren call and no comment call is in progress.
AllFinished ==
    /\ creating.pc = "idle"
    /\ \A c \in Calls : calls[c].pc = "idle"

\* C25: once every call in progress has finished, each comment that
\* createNewCommentThread or replyToCommentThread created is in the comment list
\* of the file change the node holds for its file, however a getChildren call
\* that replaces the file changes was interleaved with the await of the remote
\* host.
C25_CreatedCommentIsHeld ==
    AllFinished =>
        \A i \in 1..Len(remote) :
            remote[i].id \in creating.created => remote[i].id \in LocalIds(remote[i].path)

\* ------------------------------------------------------------ claims on PRNode
\* A thread as the editor identifies it: its threadId and its target resource.
ThreadKey(thread) == <<thread.threadId, thread.resource>>

\* No two threads of a list have the same key.
NoDuplicateKeys(threads) ==
    \A i, j \in 1..Len(threads) : i # j => ThreadKey(threads[i]) # ThreadKey(threads[j])

\* The threads of both sides of every in-memory file change.
AllThreads(changes) ==
    Flatten([i \in 1..Len(changes) |->
        IF changes[i].kind = "InMem"
        THEN commentsToCommentThreads(changes[i], changes[i].comments, TRUE)
             \o commentsToCommentThreads(changes[i], changes[i].comments, FALSE)
        ELSE <<>>])

\* The threads of the file changes as they were when the last event was fired.
ThreadsBefore == AllThreads(lastEvent.oldFileChanges)

\* The string ids of the comments the last event's operation deleted.
EventDeletedIds == DeletedIds(lastEvent.deletedComments)

\* C5: in the delta updateComments fires for one refresh, no thread (threadId and
\* resource) is in two of added, changed and removed, or twice in one of them.
C5_UpdateDeltaDisjoint ==
    lastEvent.kind = "updateComments" =>
        NoDuplicateKeys(lastEvent.added \o lastEvent.changed \o lastEvent.removed)

\* A refresh whose delta has a thread added and a thread removed, on both the
\* base and the head side.
C5_Witness ==
    /\ lastEvent.kind = "updateComments"
    /\ \E i \in 1..Len(lastEvent.added), j \in 1..Len(lastEvent.added) :
          lastEvent.added[i].resource.isBase /\ ~lastEvent.added[j].resource.isBase
    /\ \E i \in 1..Len(lastEvent.removed), j \in 1..Len(lastEvent.removed) :
          lastEvent.removed[i].resource.isBase /\ ~lastEvent.removed[j].resource.isBase

\* The threadId of a thread with a member is the string id of its first member.
NamedAfterFirstMember(threads) ==
    \A i \in 1..Len(threads) :
        Len(threads[i].comments) > 0 => threads[i].threadId = threads[i].comments[1].commentId

\* C6: every thread with a member that the node returns from provideDocumentComments,
\* createNewCommentThread or replyToCommentThread, or fires in added or changed from
\* updateComments, updateCommentPendingState or deleteDraft, has the string id of
\* its first member as threadId.
C6_ThreadIdIsFirstMember ==
    /\ delivered.ok => NamedAfterFirstMember(delivered.threads)
    /\ lastEvent.kind \in {"updateComments", "updateCommentPendingState", "deleteDraft"} =>
          NamedAfterFirstMember(lastEvent.added \o lastEvent.changed)

\* Every member of the thread is one of the deleted comments.
WhollyDeleted(thread, deletedIds) ==
    \A k \in 1..Len(thread.comments) : thread.comments[k].commentId \in deletedIds

\* Some thread of the list has the key of the thread.
HasKey(threads, thread) ==
    \E i \in 1..Len(threads) : ThreadKey(threads[i]) = ThreadKey(thread)

\* Every thread all of whose members were deleted is in removed with no member,
\* and is not in changed.
EmptiedAreRemoved(before, deletedIds, changed, removed) ==
    \A i \in 1..Len(before) :
        WhollyDeleted(before[i], deletedIds) =>
            /\ \E r \in 1..Len(removed) :
                  /\ ThreadKey(removed[r]) = ThreadKey(before[i])
                  /\ removed[r].comments = <<>>
            /\ ~HasKey(changed, before[i])

\* C7: when deleteDraft deletes every comment of a thread, the event carries the
\* thread in removed with no member, and does not carry it in changed.
C7_EmptiedThreadIsRemoved ==
    lastEvent.kind = "deleteDraft" =>
        EmptiedAreRemoved(ThreadsBefore, EventDeletedIds, lastEvent.changed, lastEvent.removed)

\* Some thread is emptied and some thread keeps a member.
OneEmptiedOneKept(before, deletedIds) ==
    /\ \E i \in 1..Len(before) : WhollyDeleted(before[i], deletedIds)
    /\ \E i \in 1..Len(before) : ~WhollyDeleted(before[i], deletedIds)

\* deleteDraft emptied one thread and left another thread with a member.
C7_Witness ==
    /\ lastEvent.kind = "deleteDraft"
    /\ OneEmptiedOneKept(ThreadsBefore, EventDeletedIds)
    /\ Len(lastEvent.removed) > 0

\* The thread is reported with the members it had before the operation.
ReportedUntouched(before, thread) ==
    \E i \in 1..Len(before) :
        /\ ThreadKey(before[i]) = ThreadKey(thread)
        /\ before[i].comments = thread.comments

\* No thread is in changed with the members it had before.
NoneReportedUntouched(before, changed) ==
    \A c \in 1..Len(changed) : ~ReportedUntouched(before, changed[c])

\* C8 as stated: the delta of deleteDraft and of updateCommentPendingState is
\* minimal, no thread is in changed with the members it had before.
C8_DeltaIsMinimal ==
    lastEvent.kind \in {"deleteDraft", "updateCommentPendingState"} =>
        NoneReportedUntouched(ThreadsBefore, lastEvent.changed)

\* Some deleted comment has the path of the thread's file.
InTouchedFile(thread, deletedComments) ==
    \E d \in 1..Len(deletedComments) : deletedComments[d].path = thread.resource.fileName

\* The threads deleteDraft reports are of touched files; a changed thread has a
\* member and no deleted member; every thread of a touched file that keeps a
\* member is in changed.
TouchedFilesReported(before, deletedComments, deletedIds, changed, removed) ==
    /\ \A t \in 1..Len(changed) : InTouchedFile(changed[t], deletedComments)
    /\ \A t \in 1..Len(removed) : InTouchedFile(removed[t], deletedComments)
    /\ \A c \in 1..Len(changed) :
          /\ changed[c].comments # <<>>
          /\ \A k \in 1..Len(changed[c].comments) :
                changed[c].comments[k].commentId \notin deletedIds
    /\ \A i \in 1..Len(before) :
          InTouchedFile(before[i], deletedComments) /\ ~WhollyDeleted(before[i], deletedIds)
              => HasKey(changed, before[i])

\* Every thread is in changed, and no member of a changed thread is a draft.
AllReported(before, changed) ==
    /\ \A i \in 1..Len(before) : HasKey(changed, before[i])
    /\ \A c \in 1..Len(changed) :
          \A k \in 1..Len(changed[c].comments) : ~changed[c].comments[k].isDraft

\* C8 amended: deleteDraft reports threads only of the files that had a deleted
\* comment, and of such a file every thread left with a member is in changed, with
\* no deleted member; updateCommentPendingState reports every thread of every
\* in-memory file change in changed, with no member flagged as draft.
C8_DeltaPerTouchedFile ==
    /\ lastEvent.kind = "deleteDraft" =>
          TouchedFilesReported(ThreadsBefore, lastEvent.deletedComments, EventDeletedIds,
                               lastEvent.changed, lastEvent.removed)
    /\ lastEvent.kind = "updateCommentPendingState" =>
          AllReported(ThreadsBefore, lastEvent.changed)

\* A changed thread of a touched file has the members it had before.
UntouchedInTouchedFile(before, deletedComments, changed) ==
    \E c \in 1..Len(changed) :
        /\ ReportedUntouched(before, changed[c])
        /\ InTouchedFile(changed[c], deletedComments)

\* deleteDraft deleted a comment and reported, in changed, a thread of the file
\* of that comment with the members it had before.
C8_Witness ==
    /\ lastEvent.kind = "deleteDraft"
    /\ lastEvent.deletedComments # <<>>
    /\ UntouchedInTouchedFile(ThreadsBefore, lastEvent.deletedComments, lastEvent.changed)

\* ------------------------------------------------------ claims on SpecComments
\* The string ids of the comments on the remote host whose position is null.
UnanchoredIds ==
    {ToString(remote[i].id) : i \in {k \in 1..Len(remote) : remote[k].position = NullPosition}}

\* Every comment of every comment list of the file changes has a position.
AllAnchored(changes) ==
    \A i \in 1..Len(changes) :
        changes[i].kind = "InMem" =>
            \A k \in 1..Len(changes[i].comments) :
                changes[i].comments[k].position # NullPosition

\* C12: a comment whose position is null is in no comment list that grouping
\* partitions (so grouping cannot fail on it) and is a member of no thread that
\* provideDocumentComments returns or that an event reports.
C12_NullPositionNeverGrouped ==
    /\ AllAnchored(fileChanges)
    /\ AllMemberIds(delivered.threads \o lastEvent.added \o lastEvent.changed
                    \o lastEvent.removed) \cap UnanchoredIds = {}

\* C12 witness: a document's threads are returned for a file that has an
\* unanchored comment on the remote host, fetched together with a later comment
\* that is a member of a returned thread.
C12_Witness ==
    /\ delivered.op = "provideDocumentComments"
    /\ delivered.ok
    /\ \E i, k \in 1..Len(remote) :
          /\ remote[i].position = NullPosition
          /\ remote[i].path = delivered.input.fileName
          /\ remote[i].id < remote[k].id
          /\ ToString(remote[k].id) \in AllMemberIds(delivered.threads)

\* The comment a call of editComment, deleteComment or replyToCommentThread names.
TargetId(input) ==
    IF "threadId" \in DOMAIN input THEN input.threadId ELSE ToString(input.commentId)

\* The file of the call has no in-memory file change, or its comment list has
\* not the comment the call names.
TargetMissing(input) ==
    \/ FileNotFound(input.fileName)
    \/ \A id \in LocalIds(input.fileName) : ToString(id) # TargetId(input)

\* C16: editComment, deleteComment and replyToCommentThread, called for a file or
\* a comment that is not found, raise an error, send no request to the remote
\* host and leave the comment lists as they were.
C16_NotFoundChangesNothing ==
    [][(/\ delivered'.op \in {"editComment", "deleteComment", "replyToCommentThread"}
        /\ TargetMissing(delivered'.input))
       => (/\ ~delivered'.ok
           /\ delivered'.request = "none"
           /\ fileChanges' = fileChanges
           /\ remote' = remote)]_vars

\* C19: when the selected line maps to a negative diff position,
\* createNewCommentThread fails, sends no createComment request and leaves the
\* comment lists and the remote host's comments as they were.
C19_NegativePositionRejected ==
    [][(/\ delivered'.op = "createNewCommentThread"
        /\ delivered'.input.position < 0)
       => (/\ ~delivered'.ok
           /\ delivered'.request = "none"
           /\ delivered'.threads = <<>>
           /\ fileChanges' = fileChanges
           /\ remote' = remote)]_vars

\* C19 witness: a line outside every hunk was selected in a document of a file
\* that has a comment, and the call failed.
C19_Witness ==
    /\ delivered.op = "createNewCommentThread"
    /\ delivered.input.position < 0
    /\ ~delivered.ok
    /\ LocalIds(delivered.input.fileName) # {}

\* C18: a refresh whose file changes are the ones the node holds (same files,
\* comments and hunks) fires no event: added, changed and removed are empty;
\* so a comment the node appended itself is not reported when it is fetched.
C18_IdenticalGenerationNoEvent ==
    [][(/\ delivered'.op = "getChildren"
        /\ delivered'.input.reconciled
        /\ fileChanges' = fileChanges)
       => lastEvent' = NoEvent]_vars

\* C18 witness: a refresh reconciled and fired nothing while a comment list
\* holds a draft comment, which only createNewCommentThread or
\* replyToCommentThread of this node put there, next to another comment.
C18_Witness ==
    /\ delivered.op = "getChildren"
    /\ delivered.input.reconciled
    /\ lastEvent = NoEvent
    /\ \E i \in 1..Len(fileChanges) :
          /\ fileChanges[i].kind = "InMem"
          /\ Len(fileChanges[i].comments) >= 2
          /\ \E k \in 1..Len(fileChanges[i].comments) : fileChanges[i].comments[k].isDraft

\* The file changes of the files other than the failing one are those built
\* from the comments and diffs on the remote host.
OthersRefreshed(changes, built, failing) ==
    \A i \in 1..Len(built) :
        built[i].fileName # failing =>
            \E k \in 1..Len(changes) : changes[k] = built[i]

\* C17: when the diff of one file cannot be parsed, getChildren still refreshes
\* the other files: each has its file change, with the comments fetched, in
\* this._fileChanges afterwards.
C17_OtherFilesRefreshed ==
    [][(/\ delivered'.op = "getChildren"
        /\ "failing" \in DOMAIN delivered'.input)
       => OthersRefreshed(fileChanges', BuildFileChanges(remote), delivered'.input.failing)]_vars

\* The comment list of the file change of the file, none when it has none.
ListOf(changes, fileName) ==
    LET found == SelectSeq(changes, LAMBDA change : change.fileName = fileName)
    IN IF found = <<>> THEN <<>> ELSE found[1].comments

\* The file changes of the other files are as they were.
OtherFilesSame(before, after, fileName) ==
    /\ Len(after) = Len(before)
    /\ \A i \in 1..Len(before) :
          before[i].fileName # fileName => after[i] = before[i]

\* What a successful operation may do to the list: create and reply append one
\* comment; edit replaces the comment of the id where it is; delete takes the
\* comment of the id out; the other comments stay, in their order.
ListFrame(op, id, before, after) ==
    IF op \in {"createNewCommentThread", "replyToCommentThread"}
    THEN /\ Len(after) = Len(before) + 1
         /\ SubSeq(after, 1, Len(before)) = before
         /\ \A k \in 1..Len(before) : before[k].id # after[Len(after)].id
    ELSE IF op = "editComment"
    THEN /\ Len(after) = Len(before)
         /\ \A k \in 1..Len(before) :
               /\ after[k].id = before[k].id
               /\ before[k].id # id => after[k] = before[k]
    ELSE /\ after = SelectSeq(before, LAMBDA comment : comment.id # id)
         /\ Len(after) >= Len(before) - 1

\* C24: the user operations change a comment list only by appending one comment
\* (create, reply), replacing the comment of the given id at its index (edit) or
\* removing the comment of the given id (delete); every other comment, and every
\* other file change, stays as and where it was.
C24_ListMutationsAreLocal ==
    [][(/\ delivered'.op \in {"createNewCommentThread", "replyToCommentThread",
                              "editComment", "deleteComment"}
        /\ delivered'.ok)
       => /\ OtherFilesSame(fileChanges, fileChanges', delivered'.input.fileName)
          /\ ListFrame(delivered'.op,
                       IF "commentId" \in DOMAIN delivered'.input
                       THEN delivered'.input.commentId ELSE 0,
                       ListOf(fileChanges, delivered'.input.fileName),
                       ListOf(fileChanges', delivered'.input.fileName))]_vars

\* C24 witness: the first of two comments of a file was edited and is still the
\* first.
C24_Witness ==
    /\ delivered.op = "editComment"
    /\ delivered.ok
    /\ Len(ListOf(fileChanges, delivered.input.fileName)) = 2
    /\ ListOf(fileChanges, delivered.input.fileName)[1].id = delivered.input.commentId
    /\ ListOf(fileChanges, delivered.input.fileName)[1].body = "b"

\* The comments of a list that are not of the review.
NotOfReview(comments, reviewId) ==
    SelectSeq(comments, LAMBDA comment : comment.pullRequestReviewId # reviewId)

\* C28: when deleteDraft has completed, no in-memory file change holds a comment
\* of the deleted review, and the comments of other reviews are in their lists in
\* the order they were in.
C28_DeleteDraftDropsReviewComments ==
    [][lastEvent'.kind = "deleteDraft"
       => /\ Len(fileChanges') = Len(fileChanges)
          /\ \A i \in 1..Len(fileChanges) :
                fileChanges[i].kind = "InMem"
                => fileChanges'[i].comments = NotOfReview(fileChanges[i].comments, pendingReview)]_vars

\* ------------------------------------------------------- claims on SpecRefresh
\* The calls of getChildren that have fetched and not yet returned.
InProgress == {c \in Calls : calls[c].pc # "idle"}

\* C13: no two getChildren calls are in progress at once: a call does not fetch
\* or reconcile against this._fileChanges while another call has fetched and
\* has not yet stored its file changes.
C13_OnePassAtATime == Cardinality(InProgress) <= 1

\* C14: the deltas are fired in the order they were computed: the call that
\* fires is the one that computed its delta first among those not yet fired.
C14_FiredInComputationOrder ==
    [][Len(computed') < Len(computed) => computed' = Tail(computed)]_vars

\* Every thread reported changed or removed was a thread of the generation
\* before, and no thread reported added was.
LifecycleRespected(before, added, changedOrRemoved) ==
    /\ \A i \in 1..Len(changedOrRemoved) : HasKey(before, changedOrRemoved[i])
    /\ \A i \in 1..Len(added) : ~HasKey(before, added[i])

\* C15: in every event of the node a thread (threadId and resource) is reported
\* changed or removed only if the generation the node holds when the event is
\* fired has it, and added only if that generation has it not: a thread goes
\* from absent to added, then changed any number of times, then removed.
C15_ThreadLifecycle ==
    lastEvent # NoEvent =>
        LifecycleRespected(ThreadsBefore, lastEvent.added,
                           lastEvent.changed \o lastEvent.removed)


\* The call registers the document comment provider and subscribes the
\* submit-review listener in the step.
Registers(c) == calls[c].pc = "registering" /\ calls'[c].pc = "idle"

\* C26: however getChildren calls on the node interleave, the document comment
\* provider is registered at most once and the submit-review listener is
\* subscribed at most once: a call registers only when no provider is
\* registered yet.
C26_RegisteredAtMostOnce ==
    [][\A c \in Calls : Registers(c) => ~registered]_vars


\* The threads of both sides of a file change.
ThreadsOfFile(fileChange) ==
    commentsToCommentThreads(fileChange, fileChange.comments, TRUE)
    \o commentsToCommentThreads(fileChange, fileChange.comments, FALSE)

\* The keys of the threads of the in-memory file changes of one generation whose
\* file has no in-memory file change in the other.
KeysOnlyIn(these, those) ==
    UNION { {ThreadKey(ThreadsOfFile(these[i])[t]) : t \in 1..Len(ThreadsOfFile(these[i]))} :
            i \in {k \in 1..Len(these) :
                      /\ these[k].kind = "InMem"
                      /\ NewFileChanges(these[k], those) = <<>>} }

\* The keys of the threads of a list.
KeysOf(threads) == {ThreadKey(threads[t]) : t \in 1..Len(threads)}

\* C27: the delta a refresh computes covers the files that are in one generation
\* only: each thread of an old in-memory file change whose file is not in the new
\* generation is in removed, and each thread of a file that is only in the new
\* generation is in added.
C27_ReconcilesAcrossFiles ==
    [][\A c \in Calls :
          (calls[c].pc = "fetched" /\ calls'[c].pc = "reconciled")
          => /\ KeysOnlyIn(fileChanges, calls[c].fileChanges) \subseteq KeysOf(calls'[c].delta.removed)
             /\ KeysOnlyIn(calls[c].fileChanges, fileChanges) \subseteq KeysOf(calls'[c].delta.added)]_vars


\* No comment of an in-memory file change is marked draft.
NoDrafts(changes) ==
    \A i \in 1..Len(changes) :
        changes[i].kind = "InMem"
        => \A k \in 1..Len(changes[i].comments) : ~changes[i].comments[k].isDraft

\* C29: handling a review-submitted notification leaves no comment marked draft
\* and fires exactly one event, with inDraftMode false and nothing added or
\* removed: the event fired is the only one for the notification; and startDraft
\* fires its event, with inDraftMode true and the three sets empty, only once the
\* remote host has started the review.
C29_DraftEvents ==
    [][/\ lastEvent'.kind = "updateCommentPendingState"
          => /\ NoDrafts(fileChanges')
             /\ ~lastEvent'.inDraftMode
             /\ lastEvent'.added = <<>> /\ lastEvent'.removed = <<>>
             /\ listeners'.toRun = 0
       /\ lastEvent'.kind = "startDraft"
          => /\ lastEvent'.inDraftMode
             /\ lastEvent'.added = <<>> /\ lastEvent'.removed = <<>> /\ lastEvent'.changed = <<>>
             /\ pendingReview = 0 /\ pendingReview' # 0]_vars


\* The failures the claim is about: a fetch, the diff parse or the
\* reconciliation throws, or there is no merge base.
FetchParseReconcile == FailingSteps \ {"ensureCommentsProvider"}

\* getChildren returned no child in the step, having failed at one of the steps.
FailedAt(steps) ==
    /\ delivered'.op = "getChildren"
    /\ ~delivered'.ok
    /\ "step" \in DOMAIN delivered'.input
    /\ delivered'.input.step \in steps

\* C30: when a fetch, the diff parse or the reconciliation of getChildren throws,
\* or the pull request has no merge base, getChildren returns an empty child
\* list, fires no event and leaves this._fileChanges as it was before the call.
C30_FailureLeavesFileChanges ==
    [][FailedAt(FetchParseReconcile)
       => /\ delivered'.threads = <<>>
          /\ lastEvent' = NoEvent
          /\ fileChanges' = fileChanges]_vars

\* C30 witness: the reconciliation threw when the node held a comment and the
\* file changes built from the remote comments were not those it held.
C30_Witness ==
    /\ delivered.op = "getChildren"
    /\ ~delivered.ok
    /\ "step" \in DOMAIN delivered.input
    /\ delivered.input.step = "updateComments"
    /\ \E i \in 1..Len(fileChanges) : fileChanges[i].comments # <<>>
    /\ BuildFileChanges(remote) # fileChanges


====
